---- MODULE Spec2Model ----
(***************************************************************************)
(* The job-queue and distributed-execution engine of f3dasm's              *)
(* ExperimentData (src/src/f3dasm/design/experimentdata.py): the three     *)
(* row-aligned tables (input store, output store, job ledger), their       *)
(* persistence, and the sequential, parallel and cluster run strategies.   *)
(*                                                                         *)
(* _Data, _JobQueue, Design and access_file are imported by                *)
(* experimentdata.py but their modules are not part of the sources; they   *)
(* are modelled from the written specification (sections 3, 4.1, 4.2,     *)
(* 4.3, 5).                                                                *)
(***************************************************************************)
EXTENDS Integers, Sequences, FiniteSets, TLC

VARIABLES
    workers,     \* the set of processes taking part (fixed by the initial state)
    mem,         \* mem[w]: the ExperimentData object process w holds in memory
    disk,        \* the persisted files, keyed by file name
    lock,        \* the set of processes holding the exclusive file lock
    pc,          \* pc[w]: position of process w inside run(...)
    mode,        \* mode[w]: the mode argument of the current run call
    operation,   \* operation[w]: the operation argument of the current run call
    design,      \* design[w]: the Design the process currently works on
    held,        \* held[w]: the dataset reloaded inside a locked section
    options,     \* options[w]: parallel mode, the claimed designs not yet dispatched to a result
    designs,     \* designs[w]: parallel mode, the designs returned by the pool
    evald,       \* evald[w]: row indices on which w evaluated the operation in this run
    raised,      \* raised[w]: the exception run(...) ended with, or "none"
    start,       \* start[w]: the dataset and the files as they were when run was called
    retry,       \* retry[w]: failed attempts to take the lock, and whether w sleeps before the next
    parameter,   \* the last call that builds a Parameter, with what it raised or returned
    designspace  \* the DesignSpace object under construction and edit, or the error of its constructor

vars == <<workers, mem, disk, lock, pc, mode, operation, design, held,
          options, designs, evald, raised, start, retry, parameter, designspace>>

(***************************************************************************)
(* Bounds of the model.                                                    *)
(***************************************************************************)
MaxRows == 3        \* most rows a dataset grows to
MaxBatch == 2       \* most rows appended by one call
NWorkers == 2       \* processes in the cluster specification

InputVals == {0, 1}     \* the values of the single input column x0

(***************************************************************************)
(* Job statuses (the ledger's state machine, spec section 4.2).            *)
(***************************************************************************)
OPEN == "open"
IN_PROGRESS == "in progress"
FINISHED == "finished"
ERROR == "error"
Status == {OPEN, IN_PROGRESS, FINISHED, ERROR}

(***************************************************************************)
(* Output cells: a value, the unset sentinel, or the 'ERROR' marker that   *)
(* set_error writes (experimentdata.py line 385).                          *)
(***************************************************************************)
ValueCell(v) == [tag |-> "value", v |-> v]
UnsetCell == [tag |-> "unset", v |-> 0]
ErrorCell == [tag |-> "ERROR", v |-> 0]

(***************************************************************************)
(* Columnar store and job ledger: sequences of rows, each row carrying     *)
(* its row index.  Input rows [i, v], output rows [i, v], ledger rows      *)
(* [i, s].                                                                 *)
(***************************************************************************)
Indices(tbl) == [k \in 1..Len(tbl) |-> tbl[k].i]
IndexSet(tbl) == {tbl[k].i : k \in 1..Len(tbl)}
HasIndex(tbl, index) == index \in IndexSet(tbl)

\* the index a newly appended row gets: one past the last row's index
NextIndex(tbl) == IF tbl = <<>> THEN 0 ELSE tbl[Len(tbl)].i + 1

\* _Data.add / _Data.add_numpy_arrays: append one row per given value
Data_add(tbl, vals) ==
    tbl \o [k \in 1..Len(vals) |-> [i |-> NextIndex(tbl) + k - 1, v |-> vals[k]]]

\* _Data.add_empty_rows: append n rows of unset cells
Data_add_empty_rows(tbl, n) ==
    tbl \o [k \in 1..n |-> [i |-> NextIndex(tbl) + k - 1, v |-> UnsetCell]]

\* _JobQueue.add: append n ledger rows with the given status
Jobs_add(jobs, n, status) ==
    jobs \o [k \in 1..n |-> [i |-> NextIndex(jobs) + k - 1, s |-> status]]

\* _Data.remove / _JobQueue.remove: drop the rows whose index is in the set
Table_remove(tbl, idxset) == SelectSeq(tbl, LAMBDA r : r.i \notin idxset)

\* position of the row with the given index
PosOf(tbl, index) == CHOOSE k \in 1..Len(tbl) : tbl[k].i = index

\* _Data.select / _JobQueue.select: keep the rows of the given indices, in
\* the order given
Table_select(tbl, indices) == [k \in 1..Len(indices) |-> tbl[PosOf(tbl, indices[k])]]

\* _Data.get_data_dict: the cell of the row with the given index
Data_get(tbl, index) == tbl[PosOf(tbl, index)].v

\* _Data.set_data(index, value, column): point mutation of a row
Data_set(tbl, index, value) ==
    [k \in 1..Len(tbl) |-> IF tbl[k].i = index THEN [tbl[k] EXCEPT !.v = value] ELSE tbl[k]]

\* _JobQueue.mark_as_in_progress / mark_as_finished / mark_as_error
Jobs_mark(jobs, index, status) ==
    [k \in 1..Len(jobs) |-> IF jobs[k].i = index THEN [jobs[k] EXCEPT !.s = status] ELSE jobs[k]]

StatusOf(jobs, index) == jobs[PosOf(jobs, index)].s

OpenIndices(jobs) == {jobs[k].i : k \in {n \in 1..Len(jobs) : jobs[n].s = OPEN}}

HasOpenJob(jobs) == OpenIndices(jobs) # {}

\* _JobQueue.get_open_job (claim_one of spec 4.2): the lowest-index row
\* whose status is OPEN; callers test HasOpenJob first (NoOpenJobsError)
Jobs_get_open_job(jobs) ==
    CHOOSE i \in OpenIndices(jobs) : \A j \in OpenIndices(jobs) : i <= j

(***************************************************************************)
(* ExperimentData: the aggregate of domain, input store, output store and  *)
(* job ledger, and its methods as functions from dataset to dataset.       *)
(***************************************************************************)
DefaultFilename == "doe"
DefaultDomain == <<"x0">>

\* ExperimentData.__init__: the input store takes its columns from the
\* domain (_Data.from_domain)
ExperimentData_init ==
    [domain |-> DefaultDomain, input_columns |-> DefaultDomain, input_data |-> <<>>,
     output_data |-> <<>>, jobs |-> <<>>, filename |-> DefaultFilename]

\* the names a sequence of names holds
NameSet(names) == {names[k] : k \in 1..Len(names)}

\* Domain.add_input_space(name, space): input_space[name] = space, on the
\* names of the input space in their order
Domain_add_input_space(domain, name) ==
    IF name \in NameSet(domain) THEN domain ELSE Append(domain, name)

\* _Data.add_column(name): the column mapping gets the name, with unset
\* cells for every row
Data_add_column(columns, name) ==
    IF name \in NameSet(columns) THEN columns ELSE Append(columns, name)

\* add_new_input_column without the call of domain.add_input_space
add_new_input_column_without_domain(d, name) ==
    [d EXCEPT !.input_columns = Data_add_column(@, name)]

\* ExperimentData.add_new_input_column(name, parameter)
add_new_input_column(d, name) ==
    [d EXCEPT !.input_columns = Data_add_column(@, name),
              !.domain = Domain_add_input_space(@, name)]

\* ExperimentData.__len__ / get_number_of_datapoints
NumberOfDatapoints(d) == Len(d.input_data)

\* ExperimentData.add(data): data is the column of input values of the frame
add(d, data) ==
    [d EXCEPT !.input_data = Data_add(@, data),
              !.output_data = Data_add_empty_rows(@, Len(data)),
              !.jobs = Jobs_add(@, Len(data), OPEN)]

\* add_numpy_arrays leaving the status at 'open' when outputs are given
\* (line 449 lost)
add_numpy_arrays_always_open(d, input, has_output, output) ==
    [d EXCEPT !.input_data = Data_add(@, input),
              !.output_data = IF has_output
                                THEN Data_add(@, [k \in 1..Len(output) |-> ValueCell(output[k])])
                                ELSE Data_add_empty_rows(@, Len(input)),
              !.jobs = Jobs_add(@, Len(input), OPEN)]

\* ExperimentData.add_numpy_arrays(input, output); has_output = FALSE is
\* output=None
add_numpy_arrays(d, input, has_output, output) ==
    LET status == IF has_output THEN FINISHED ELSE OPEN
    IN [d EXCEPT !.input_data = Data_add(@, input),
                 !.output_data = IF has_output
                                   THEN Data_add(@, [k \in 1..Len(output) |-> ValueCell(output[k])])
                                   ELSE Data_add_empty_rows(@, Len(input)),
                 !.jobs = Jobs_add(@, Len(input), status)]

\* input_data.data.index[-number_of_rows:]: the last number_of_rows indices
LastIndices(tbl, n) ==
    {tbl[k].i : k \in {m \in 1..Len(tbl) : m > Len(tbl) - n}}

\* ExperimentData.remove_rows_bottom(number_of_rows)
remove_rows_bottom(d, number_of_rows) ==
    IF number_of_rows = 0
      THEN d
      ELSE LET indices == LastIndices(d.input_data, number_of_rows)
           IN [d EXCEPT !.input_data = Table_remove(@, indices),
                        !.output_data = Table_remove(@, indices),
                        !.jobs = Table_remove(@, indices)]

\* a selection raises KeyError when an index is absent from a table
SelectRaises(d, indices) ==
    \E k \in 1..Len(indices) :
        \/ ~HasIndex(d.input_data, indices[k])
        \/ ~HasIndex(d.output_data, indices[k])
        \/ ~HasIndex(d.jobs, indices[k])

\* ExperimentData.select(indices): the new dataset returned
select(d, indices) ==
    [d EXCEPT !.input_data = Table_select(@, indices),
              !.output_data = Table_select(@, indices),
              !.jobs = Table_select(@, indices)]

\* select changing the dataset it is called on instead of a copy
select_call_in_place(d, indices) ==
    [self |-> select(d, indices), returned |-> select(d, indices)]

\* a call of ExperimentData.select(indices): the dataset it was called on
\* afterwards (the selection is made on a deepcopy, line 183) and the
\* dataset returned
select_call(d, indices) ==
    [self |-> d, returned |-> select(d, indices)]

\* ExperimentData.reset_data
reset_data(d) ==
    [d EXCEPT !.input_columns = d.domain,
              !.input_data = <<>>, !.output_data = <<>>, !.jobs = <<>>]

(***************************************************************************)
(* Persistence: four files per base name.                                  *)
(***************************************************************************)
Filenames == {DefaultFilename}
Suffixes == {"_data", "_output", "_jobs", "_domain"}
FileKeys == Filenames \X Suffixes

MissingFile == [exists |-> FALSE, content |-> <<>>]
File(content) == [exists |-> TRUE, content |-> content]
EmptyDisk == [f \in FileKeys |-> MissingFile]

\* ExperimentData.store(filename): the files after the call
store(d, filename, files) ==
    [f \in FileKeys |->
        IF f = <<filename, "_data">>
          THEN File([columns |-> d.input_columns, rows |-> d.input_data])
        ELSE IF f = <<filename, "_output">> THEN File(d.output_data)
        ELSE IF f = <<filename, "_jobs">> THEN File(d.jobs)
        ELSE IF f = <<filename, "_domain">> THEN File(d.domain)
        ELSE files[f]]

\* _Data.from_indices: one unset row per given index
Data_from_indices(indices) ==
    [k \in 1..Len(indices) |-> [i |-> indices[k], v |-> UnsetCell]]

\* _from_file_attempt raising FileNotFoundError for a missing output file too
FromFileNotFound_needing_output(files, filename) ==
    \/ ~files[<<filename, "_domain">>].exists
    \/ ~files[<<filename, "_data">>].exists
    \/ ~files[<<filename, "_output">>].exists
    \/ ~files[<<filename, "_jobs">>].exists

\* ExperimentData._from_file_attempt raises FileNotFoundError
FromFileNotFound(files, filename) ==
    \/ ~files[<<filename, "_domain">>].exists
    \/ ~files[<<filename, "_data">>].exists
    \/ ~files[<<filename, "_jobs">>].exists

\* _from_file_attempt always taking the fallback of line 140 for the outputs
from_file_attempt_without_output(files, filename) ==
    LET input == files[<<filename, "_data">>].content.rows
    IN [domain |-> files[<<filename, "_domain">>].content,
        input_columns |-> files[<<filename, "_data">>].content.columns,
        input_data |-> input,
        output_data |-> Data_from_indices(Indices(input)),
        jobs |-> files[<<filename, "_jobs">>].content,
        filename |-> filename]

\* ExperimentData._from_file_attempt(filename): the dataset loaded
from_file_attempt(files, filename) ==
    LET input == files[<<filename, "_data">>].content.rows
    IN [domain |-> files[<<filename, "_domain">>].content,
        input_columns |-> files[<<filename, "_data">>].content.columns,
        input_data |-> input,
        output_data |-> IF files[<<filename, "_output">>].exists
                          THEN files[<<filename, "_output">>].content
                          ELSE Data_from_indices(Indices(input)),
        jobs |-> files[<<filename, "_jobs">>].content,
        filename |-> filename]

\* ExperimentData.from_file(filename): the outcome and the dataset created;
\* the second attempt of lines 122-127 looks in the same directory
from_file(files, filename) ==
    IF FromFileNotFound(files, filename)
      THEN [raised |-> "FileNotFoundError", created |-> FALSE, data |-> ExperimentData_init]
      ELSE [raised |-> "none", created |-> TRUE, data |-> from_file_attempt(files, filename)]

(***************************************************************************)
(* Designs and the operation.                                              *)
(***************************************************************************)
\* Design(dict_input, dict_output, jobnumber); err marks a failed evaluation
Design(index, inp, out) == [job |-> index, inp |-> inp, out |-> out, err |-> FALSE]
NoDesign == [job |-> 0, inp |-> 0, out |-> UnsetCell, err |-> TRUE]

\* The operations handed to run: y = x0^2, and the same operation raising
\* for the row where x0 = 0 (the scenario of spec section 8)
Operations == {"square", "square_raising_on_zero"}
OperationRaises(op, dsg) == op = "square_raising_on_zero" /\ dsg.inp = 0
OperationResult(op, dsg) == [dsg EXCEPT !.out = ValueCell(dsg.inp * dsg.inp)]

\* get_design raises when the index is absent from a store
GetDesignRaises(d, index) ==
    ~HasIndex(d.input_data, index) \/ ~HasIndex(d.output_data, index)

\* ExperimentData.get_design(index)
get_design(d, index) ==
    Design(index, Data_get(d.input_data, index), Data_get(d.output_data, index))

\* access_open_job_data without the mark_as_in_progress call of line 375
access_open_job_data_without_mark(d) ==
    IF ~HasOpenJob(d.jobs)
      THEN [raised |-> "NoOpenJobsError", data |-> d, design |-> NoDesign]
      ELSE [raised |-> "none", data |-> d,
            design |-> get_design(d, Jobs_get_open_job(d.jobs))]

\* access_open_job_data taking rows in error for open ones (retrying them)
access_open_job_data_retrying_errors(d) ==
    LET again == {d.jobs[k].i : k \in {n \in 1..Len(d.jobs) : d.jobs[n].s \in {OPEN, ERROR}}}
    IN IF again = {}
         THEN [raised |-> "NoOpenJobsError", data |-> d, design |-> NoDesign]
         ELSE LET job_index == CHOOSE i \in again : \A j \in again : i <= j
                  marked == [d EXCEPT !.jobs = Jobs_mark(@, job_index, IN_PROGRESS)]
              IN [raised |-> "none", data |-> marked, design |-> get_design(marked, job_index)]

\* access_open_job_data marking every open row as in progress
access_open_job_data_marking_all(d) ==
    IF ~HasOpenJob(d.jobs)
      THEN [raised |-> "NoOpenJobsError", data |-> d, design |-> NoDesign]
      ELSE LET job_index == Jobs_get_open_job(d.jobs)
               marked == [d EXCEPT !.jobs =
                             [k \in 1..Len(@) |->
                                 IF @[k].s = OPEN THEN [@[k] EXCEPT !.s = IN_PROGRESS]
                                 ELSE @[k]]]
           IN IF GetDesignRaises(marked, job_index)
                THEN [raised |-> "KeyError", data |-> marked, design |-> NoDesign]
                ELSE [raised |-> "none", data |-> marked,
                      design |-> get_design(marked, job_index)]

\* ExperimentData.access_open_job_data: the outcome (raised), the dataset
\* afterwards and the design returned
access_open_job_data(d) ==
    IF ~HasOpenJob(d.jobs)
      THEN [raised |-> "NoOpenJobsError", data |-> d, design |-> NoDesign]
      ELSE LET job_index == Jobs_get_open_job(d.jobs)
               marked == [d EXCEPT !.jobs = Jobs_mark(@, job_index, IN_PROGRESS)]
           IN IF GetDesignRaises(marked, job_index)
                THEN [raised |-> "KeyError", data |-> marked, design |-> NoDesign]
                ELSE [raised |-> "none", data |-> marked,
                      design |-> get_design(marked, job_index)]

\* ExperimentData.set_outputdata_by_index(index, value): set_data fails
\* with IndexError when the index is absent (spec 4.1)
set_outputdata_by_index(d, index, value) ==
    IF ~HasIndex(d.output_data, index)
      THEN [raised |-> "IndexError", data |-> d]
      ELSE [raised |-> "none",
            data |-> [d EXCEPT !.output_data = Data_set(@, index, value),
                               !.jobs = Jobs_mark(@, index, FINISHED)]]

\* set_design without the mark_as_finished call of line 324
set_design_without_mark(d, dsg) ==
    IF ~HasIndex(d.output_data, dsg.job)
      THEN [raised |-> "IndexError", data |-> d]
      ELSE [raised |-> "none",
            data |-> [d EXCEPT !.output_data = Data_set(@, dsg.job, dsg.out)]]

\* set_design marking the job open again instead of finished
set_design_reopening(d, dsg) ==
    IF ~HasIndex(d.output_data, dsg.job)
      THEN [raised |-> "IndexError", data |-> d]
      ELSE [raised |-> "none",
            data |-> [d EXCEPT !.output_data = Data_set(@, dsg.job, dsg.out),
                               !.jobs = Jobs_mark(@, dsg.job, OPEN)]]

\* set_design reopening a job that is completed a second time
set_design_toggling(d, dsg) ==
    IF ~HasIndex(d.output_data, dsg.job)
      THEN [raised |-> "IndexError", data |-> d]
      ELSE [raised |-> "none",
            data |-> [d EXCEPT !.output_data = Data_set(@, dsg.job, dsg.out),
                               !.jobs = Jobs_mark(@, dsg.job,
                                   IF StatusOf(d.jobs, dsg.job) = FINISHED
                                     THEN OPEN ELSE FINISHED)]]

\* ExperimentData.set_design(design)
set_design(d, dsg) ==
    IF ~HasIndex(d.output_data, dsg.job)
      THEN [raised |-> "IndexError", data |-> d]
      ELSE [raised |-> "none",
            data |-> [d EXCEPT !.output_data = Data_set(@, dsg.job, dsg.out),
                               !.jobs = Jobs_mark(@, dsg.job, FINISHED)]]

\* ExperimentData.set_error(index): mark_as_error, then
\* set_outputdata_by_index(index, 'ERROR')
set_error(d, index) ==
    set_outputdata_by_index([d EXCEPT !.jobs = Jobs_mark(@, index, ERROR)],
                            index, ErrorCell)

\* the writeback of _run_sequential storing the design as it was claimed,
\* not the one the operation returned
run_sequential_writeback_dropping_result(d, dsg, op) ==
    IF OperationRaises(op, dsg)
      THEN set_error(d, dsg.job)
      ELSE LET r == set_design(d, dsg)
           IN IF r.raised = "none" THEN r ELSE set_error(r.data, dsg.job)

\* The try/except around operation and set_design in _run_sequential
\* (lines 571-586): the dataset after evaluating one claimed design
run_sequential_writeback(d, dsg, op) ==
    IF OperationRaises(op, dsg)
      THEN set_error(d, dsg.job)
      ELSE LET r == set_design(d, OperationResult(op, dsg))
           IN IF r.raised = "none" THEN r ELSE set_error(r.data, dsg.job)

\* ExperimentData._run_sequential as a whole: the dataset when the loop ends
RECURSIVE run_sequential(_, _)
run_sequential(d, op) ==
    LET r == access_open_job_data(d)
    IN IF r.raised # "none"
         THEN r.data
         ELSE LET wb == run_sequential_writeback(r.data, r.design, op)
              IN IF wb.raised # "none" THEN wb.data ELSE run_sequential(wb.data, op)

\* the message of the ValueError raised by run (line 245), word by word
InvalidModeMessage == <<"Invalid", "parallelization", "mode", "specified.">>

\* ExperimentData.run: the strategy a call dispatches to, or its error
Modes == {"sequential", "parallel", "cluster", "Sequential", "threads"}
Lower(m) == IF m = "Sequential" THEN "sequential" ELSE m

\* run dispatching on the mode before it looks at the operation
run_checking_mode_first(callable, m) ==
    IF Lower(m) = "sequential" THEN "seq_claim"
    ELSE IF Lower(m) = "parallel" THEN "par_claim"
    ELSE IF Lower(m) = "cluster" THEN "clu_load"
    ELSE IF ~callable THEN "TypeError"
    ELSE "ValueError"

run(callable, m) ==
    IF ~callable THEN "TypeError"
    ELSE IF Lower(m) = "sequential" THEN "seq_claim"
    ELSE IF Lower(m) = "parallel" THEN "par_claim"
    ELSE IF Lower(m) = "cluster" THEN "clu_load"
    ELSE "ValueError"

(***************************************************************************)
(* Cluster mode: the methods decorated with access_file.  The decorator    *)
(* takes the exclusive lock, reloads the dataset from the files            *)
(* (AccessFileEnter), runs the method on the reloaded dataset, persists    *)
(* it and releases the lock; an exception leaves the locked section        *)
(* without persisting.                                                     *)
(***************************************************************************)
access_file_release(lk, w) == lk \ {w}

\* get_open_job_data evaluating the operation inside the locked method
get_open_job_data_evaluating(w, h, files, lk) ==
    LET r == access_open_job_data(h)
    IN [raised |-> r.raised,
        files |-> IF r.raised = "none" THEN store(r.data, r.data.filename, files) ELSE files,
        lock |-> access_file_release(lk, w),
        design |-> r.design,
        evaluated |-> IF r.raised = "none" THEN <<r.design.job>> ELSE <<>>]

\* ExperimentData.get_open_job_data, run on the reloaded dataset h by
\* process w: outcome, files and lock afterwards, the design returned and
\* the indices the operation was evaluated on inside the method (none)
get_open_job_data(w, h, files, lk) ==
    LET r == access_open_job_data(h)
    IN [raised |-> r.raised,
        files |-> IF r.raised = "none" THEN store(r.data, r.data.filename, files) ELSE files,
        lock |-> access_file_release(lk, w),
        design |-> r.design,
        evaluated |-> <<>>]

\* write_design leaving the locked section without persisting the dataset
write_design_not_persisting(w, h, dsg, files, lk) ==
    LET r == set_design(h, dsg)
    IN [raised |-> r.raised,
        files |-> files,
        lock |-> access_file_release(lk, w)]

\* ExperimentData.write_design
write_design(w, h, dsg, files, lk) ==
    LET r == set_design(h, dsg)
    IN [raised |-> r.raised,
        files |-> IF r.raised = "none" THEN store(r.data, r.data.filename, files) ELSE files,
        lock |-> access_file_release(lk, w)]

\* write_error persisting the reloaded dataset without the error mark
write_error_without_mark(w, h, index, files, lk) ==
    [raised |-> "none",
     files |-> store(h, h.filename, files),
     lock |-> access_file_release(lk, w)]

\* ExperimentData.write_error
write_error(w, h, index, files, lk) ==
    LET r == set_error(h, index)
    IN [raised |-> r.raised,
        files |-> IF r.raised = "none" THEN store(r.data, r.data.filename, files) ELSE files,
        lock |-> access_file_release(lk, w)]

(***************************************************************************)
(* Actions.  Every action is a step of process w.                          *)
(***************************************************************************)
Idle(w) == pc[w] = "idle"

NoRetry == [n |-> 0, asleep |-> FALSE]

NoStart == [data |-> ExperimentData_init, files |-> EmptyDisk]

RunVars == <<pc, mode, operation, design, held, options, designs, evald, raised>>

\* the model keeps every row index below MaxRows
RoomFor(d, n, nout) ==
    /\ NextIndex(d.input_data) + n <= MaxRows
    /\ NextIndex(d.output_data) + nout <= MaxRows
    /\ NextIndex(d.jobs) + n <= MaxRows

\* d.add(data)
Add(w, data) ==
    /\ Idle(w)
    /\ Len(mem[w].input_data) + Len(data) <= MaxRows
    /\ RoomFor(mem[w], Len(data), Len(data))
    /\ mem' = [mem EXCEPT ![w] = add(@, data)]
    /\ UNCHANGED <<parameter, designspace, workers, retry, start, disk, lock, RunVars>>

\* d.add_numpy_arrays(input, output)
AddNumpyArrays(w, input, has_output, output) ==
    /\ Idle(w)
    /\ Len(mem[w].input_data) + Len(input) <= MaxRows
    /\ RoomFor(mem[w], Len(input), IF has_output THEN Len(output) ELSE Len(input))
    /\ mem' = [mem EXCEPT ![w] = add_numpy_arrays(@, input, has_output, output)]
    /\ UNCHANGED <<parameter, designspace, workers, retry, start, disk, lock, RunVars>>

\* d.remove_rows_bottom(number_of_rows)
RemoveRowsBottom(w, number_of_rows) ==
    /\ Idle(w)
    /\ mem' = [mem EXCEPT ![w] = remove_rows_bottom(@, number_of_rows)]
    /\ UNCHANGED <<parameter, designspace, workers, retry, start, disk, lock, RunVars>>

\* d = d.select(indices); a KeyError leaves d as it was
Select(w, indices) ==
    /\ Idle(w)
    /\ mem' = [mem EXCEPT ![w] = IF SelectRaises(@, indices)
                                    THEN @ ELSE select_call(@, indices).returned]
    /\ UNCHANGED <<parameter, designspace, workers, retry, start, disk, lock, RunVars>>

\* d.add_new_input_column(name, parameter)
AddNewInputColumn(w, name) ==
    /\ Idle(w)
    /\ mem' = [mem EXCEPT ![w] = add_new_input_column(@, name)]
    /\ UNCHANGED <<parameter, designspace, workers, retry, start, disk, lock, RunVars>>

\* d.reset_data()
ResetData(w) ==
    /\ Idle(w)
    /\ mem' = [mem EXCEPT ![w] = reset_data(@)]
    /\ UNCHANGED <<parameter, designspace, workers, retry, start, disk, lock, RunVars>>

\* d.store(filename)
Store(w, filename) ==
    /\ Idle(w)
    /\ disk' = store(mem[w], filename, disk)
    /\ UNCHANGED <<parameter, designspace, workers, retry, start, mem, lock, RunVars>>

\* d = ExperimentData.from_file(filename); FileNotFoundError leaves d
FromFile(w, filename) ==
    /\ Idle(w)
    /\ mem' = [mem EXCEPT ![w] = IF from_file(disk, filename).created
                                    THEN from_file(disk, filename).data ELSE @]
    /\ UNCHANGED <<parameter, designspace, workers, retry, start, disk, lock, RunVars>>

\* d.set_design(design), called directly with a design read from row index
SetDesign(w, index, value) ==
    /\ Idle(w)
    /\ ~GetDesignRaises(mem[w], index)
    /\ mem' = [mem EXCEPT ![w] =
                  set_design(@, [get_design(@, index) EXCEPT !.out = ValueCell(value)]).data]
    /\ UNCHANGED <<parameter, designspace, workers, retry, start, disk, lock, RunVars>>

\* d.set_outputdata_by_index(index, value)
SetOutputdataByIndex(w, index, value) ==
    /\ Idle(w)
    /\ mem' = [mem EXCEPT ![w] = set_outputdata_by_index(@, index, ValueCell(value)).data]
    /\ UNCHANGED <<parameter, designspace, workers, retry, start, disk, lock, RunVars>>

\* d.set_error(index), for an index of the ledger
SetError(w, index) ==
    /\ Idle(w)
    /\ HasIndex(mem[w].jobs, index)
    /\ mem' = [mem EXCEPT ![w] = set_error(@, index).data]
    /\ UNCHANGED <<parameter, designspace, workers, retry, start, disk, lock, RunVars>>

\* d.access_open_job_data(), called directly
AccessOpenJobData(w) ==
    /\ Idle(w)
    /\ mem' = [mem EXCEPT ![w] = access_open_job_data(@).data]
    /\ UNCHANGED <<parameter, designspace, workers, retry, start, disk, lock, RunVars>>

\* d.run(operation, mode): the checks and the dispatch of lines 231-245
Run(w, callable, op, m) ==
    /\ Idle(w)
    /\ LET entry == run(callable, m)
       IN /\ pc' = [pc EXCEPT ![w] = IF entry \in {"TypeError", "ValueError"}
                                       THEN "done" ELSE entry]
          /\ raised' = [raised EXCEPT ![w] = IF entry \in {"TypeError", "ValueError"}
                                               THEN entry ELSE "none"]
    /\ mode' = [mode EXCEPT ![w] = m]
    /\ operation' = [operation EXCEPT ![w] = IF callable THEN op ELSE "not callable"]
    /\ start' = [start EXCEPT ![w] = [data |-> mem[w], files |-> disk]]
    /\ UNCHANGED <<parameter, designspace,
                   workers, retry, mem, disk, lock, held, design, options, designs, evald>>

\* run has ended ("done"); the caller takes note of the outcome and goes on
Return(w) ==
    /\ pc[w] = "done"
    /\ pc' = [pc EXCEPT ![w] = "idle"]
    /\ mode' = [mode EXCEPT ![w] = "sequential"]
    /\ operation' = [operation EXCEPT ![w] = "square"]
    /\ evald' = [evald EXCEPT ![w] = <<>>]
    /\ raised' = [raised EXCEPT ![w] = "none"]
    /\ start' = [start EXCEPT ![w] = NoStart]
    /\ UNCHANGED <<parameter, designspace,
                   workers, retry, mem, disk, lock, design, held, options, designs>>

\* _run_sequential, lines 563-569: claim the next open job or leave the loop
SeqClaim(w) ==
    /\ pc[w] = "seq_claim"
    /\ LET r == access_open_job_data(mem[w])
       IN /\ mem' = [mem EXCEPT ![w] = r.data]
          /\ design' = [design EXCEPT ![w] = r.design]
          /\ pc' = [pc EXCEPT ![w] = IF r.raised = "none" THEN "seq_eval" ELSE "done"]
          /\ raised' = [raised EXCEPT ![w] =
                           IF r.raised = "NoOpenJobsError" THEN "none" ELSE r.raised]
    /\ UNCHANGED <<parameter, designspace,
                   workers, retry, start, disk, lock, mode, operation, held, options, designs, evald>>

\* _run_sequential, lines 571-586: evaluate the operation and write back
SeqEval(w) ==
    /\ pc[w] = "seq_eval"
    /\ LET r == run_sequential_writeback(mem[w], design[w], operation[w])
       IN /\ mem' = [mem EXCEPT ![w] = r.data]
          /\ pc' = [pc EXCEPT ![w] = IF r.raised = "none" THEN "seq_claim" ELSE "done"]
          /\ raised' = [raised EXCEPT ![w] = r.raised]
    /\ evald' = [evald EXCEPT ![w] = Append(@, design[w].job)]
    /\ design' = [design EXCEPT ![w] = NoDesign]
    /\ UNCHANGED <<parameter, designspace,
                   workers, retry, start, disk, lock, mode, operation, held, options, designs>>

\* _run_multiprocessing, lines 590-597: claim every open job up front
ParClaim(w) ==
    /\ pc[w] = "par_claim"
    /\ LET r == access_open_job_data(mem[w])
       IN /\ mem' = [mem EXCEPT ![w] = r.data]
          /\ options' = [options EXCEPT ![w] =
                            IF r.raised = "none"
                              THEN Append(@, [design |-> r.design, state |-> "pending"])
                              ELSE @]
          /\ pc' = [pc EXCEPT ![w] = IF r.raised = "none" THEN "par_claim"
                                       ELSE IF r.raised = "NoOpenJobsError" THEN "par_pool"
                                       ELSE "done"]
          /\ raised' = [raised EXCEPT ![w] =
                           IF r.raised \in {"none", "NoOpenJobsError"} THEN "none" ELSE r.raised]
    /\ UNCHANGED <<parameter, designspace,
                   workers, retry, start, disk, lock, mode, operation, design, held, designs, evald>>

\* one task of pool.starmap(f, options), line 605: a pool worker evaluates
\* the operation on its copy of the design
ParTask(w, k) ==
    /\ pc[w] = "par_pool"
    /\ k \in 1..Len(options[w])
    /\ options[w][k].state = "pending"
    /\ LET dsg == options[w][k].design
       IN options' = [options EXCEPT ![w][k] =
                         IF OperationRaises(operation[w], dsg)
                           THEN [design |-> dsg, state |-> "raised"]
                           ELSE [design |-> OperationResult(operation[w], dsg),
                                 state |-> "returned"]]
    /\ evald' = [evald EXCEPT ![w] = Append(@, options[w][k].design.job)]
    /\ UNCHANGED <<parameter, designspace,
                   workers, retry, start, mem, disk, lock, pc, mode, operation, design, held, designs,
                   raised>>

\* starmap handing the designs of the tasks that returned to the writeback
\* loop when another task raised
ParJoin_keeping_returned(w) ==
    /\ pc[w] = "par_pool"
    /\ \A k \in 1..Len(options[w]) : options[w][k].state # "pending"
    /\ LET returned == SelectSeq(options[w], LAMBDA o : o.state = "returned")
       IN /\ designs' = [designs EXCEPT ![w] =
                            [k \in 1..Len(returned) |-> returned[k].design]]
          /\ pc' = [pc EXCEPT ![w] = IF returned = <<>> THEN "done" ELSE "par_write"]
          /\ raised' = [raised EXCEPT ![w] =
                           IF Len(returned) < Len(options[w]) THEN "Exception" ELSE "none"]
    /\ options' = [options EXCEPT ![w] = <<>>]
    /\ UNCHANGED <<parameter, designspace,
                   workers, retry, start, mem, disk, lock, mode, operation, design, held, evald>>

\* starmap returning without waiting for the tasks that have not ended
ParJoin_not_waiting(w) ==
    /\ pc[w] = "par_pool"
    /\ LET failed == \E k \in 1..Len(options[w]) : options[w][k].state = "raised"
       IN /\ designs' = [designs EXCEPT ![w] =
                            IF failed THEN <<>>
                            ELSE [k \in 1..Len(options[w]) |-> options[w][k].design]]
          /\ pc' = [pc EXCEPT ![w] =
                       IF failed \/ options[w] = <<>> THEN "done" ELSE "par_write"]
          /\ raised' = [raised EXCEPT ![w] = IF failed THEN "Exception" ELSE "none"]
    /\ options' = [options EXCEPT ![w] = <<>>]
    /\ UNCHANGED <<parameter, designspace,
                   workers, retry, start, mem, disk, lock, mode, operation, design, held, evald>>

\* pool.starmap returns the designs once every task has ended, or raises
\* the exception of a failed task
ParJoin(w) ==
    /\ pc[w] = "par_pool"
    /\ \A k \in 1..Len(options[w]) : options[w][k].state # "pending"
    /\ LET failed == \E k \in 1..Len(options[w]) : options[w][k].state = "raised"
       IN /\ designs' = [designs EXCEPT ![w] =
                            IF failed THEN <<>>
                            ELSE [k \in 1..Len(options[w]) |-> options[w][k].design]]
          /\ pc' = [pc EXCEPT ![w] =
                       IF failed \/ options[w] = <<>> THEN "done" ELSE "par_write"]
          /\ raised' = [raised EXCEPT ![w] = IF failed THEN "Exception" ELSE "none"]
    /\ options' = [options EXCEPT ![w] = <<>>]
    /\ UNCHANGED <<parameter, designspace,
                   workers, retry, start, mem, disk, lock, mode, operation, design, held, evald>>

\* _run_multiprocessing, lines 607-608: write one returned design back
ParWrite(w) ==
    /\ pc[w] = "par_write"
    /\ designs[w] # <<>>
    /\ LET r == set_design(mem[w], Head(designs[w]))
       IN /\ mem' = [mem EXCEPT ![w] = r.data]
          /\ pc' = [pc EXCEPT ![w] =
                       IF r.raised # "none" \/ Tail(designs[w]) = <<>> THEN "done"
                       ELSE "par_write"]
          /\ raised' = [raised EXCEPT ![w] = r.raised]
    /\ designs' = [designs EXCEPT ![w] = Tail(@)]
    /\ UNCHANGED <<parameter, designspace,
                   workers, retry, start, disk, lock, mode, operation, design, held, options, evald>>

\* _run_cluster, lines 612-614: try to reload the dataset from the files
\* (not locked); the reloaded object only replaces the local name self
CluLoad(w) ==
    /\ pc[w] = "clu_load"
    /\ pc' = [pc EXCEPT ![w] = IF FromFileNotFound(disk, mem[w].filename)
                                  THEN "clu_store" ELSE "clu_loop"]
    /\ UNCHANGED <<parameter, designspace,
                   workers, retry, start, mem, disk, lock, mode, operation, design, held, options,
                   designs, evald, raised>>

\* _run_cluster, line 615: nothing was found, persist the caller's dataset
\* (not locked)
CluStore(w) ==
    /\ pc[w] = "clu_store"
    /\ disk' = store(mem[w], mem[w].filename, disk)
    /\ pc' = [pc EXCEPT ![w] = "clu_loop"]
    /\ UNCHANGED <<parameter, designspace,
                   workers, retry, start, mem, lock, mode, operation, design, held, options, designs,
                   evald, raised>>

\* access_file, entering a decorated method: take the free lock and reload
\* the dataset from the files
AccessFileEnter(w, from, to) ==
    /\ pc[w] = from
    /\ ~retry[w].asleep
    /\ lock = {}
    /\ ~FromFileNotFound(disk, mem[w].filename)
    /\ lock' = {w}
    /\ held' = [held EXCEPT ![w] = from_file_attempt(disk, mem[w].filename)]
    /\ pc' = [pc EXCEPT ![w] = to]
    /\ retry' = [retry EXCEPT ![w] = NoRetry]
    /\ UNCHANGED <<parameter, designspace,
                   workers, start, mem, disk, mode, operation, design, options, designs, evald,
                   raised>>

\* _run_cluster, line 620: get_open_job_data() is entered
CluEnterClaim(w) == AccessFileEnter(w, "clu_loop", "clu_claiming")

\* _run_cluster, lines 619-623: get_open_job_data() runs and returns a
\* design, or NoOpenJobsError ends the loop
CluClaim(w) ==
    /\ pc[w] = "clu_claiming"
    /\ LET r == get_open_job_data(w, held[w], disk, lock)
       IN /\ disk' = r.files
          /\ lock' = r.lock
          /\ design' = [design EXCEPT ![w] = r.design]
          /\ evald' = [evald EXCEPT ![w] = @ \o r.evaluated]
          /\ pc' = [pc EXCEPT ![w] = IF r.raised = "none" THEN "clu_eval" ELSE "done"]
          /\ raised' = [raised EXCEPT ![w] =
                           IF r.raised = "NoOpenJobsError" THEN "none" ELSE r.raised]
    /\ held' = [held EXCEPT ![w] = ExperimentData_init]
    /\ UNCHANGED <<parameter, designspace,
                   workers, retry, start, mem, mode, operation, options, designs>>

\* _run_cluster, line 626: the operation is evaluated on the claimed design
CluEval(w) ==
    /\ pc[w] = "clu_eval"
    /\ design' = [design EXCEPT ![w] =
                     IF OperationRaises(operation[w], @)
                       THEN [@ EXCEPT !.err = TRUE]
                       ELSE OperationResult(operation[w], @)]
    /\ evald' = [evald EXCEPT ![w] = Append(@, design[w].job)]
    /\ pc' = [pc EXCEPT ![w] = "clu_write"]
    /\ UNCHANGED <<parameter, designspace,
                   workers, retry, start, mem, disk, lock, mode, operation, held, options, designs,
                   raised>>

\* _run_cluster, lines 627 and 632: write_design or write_error is entered
CluEnterWrite(w) == AccessFileEnter(w, "clu_write", "clu_writing")

\* the writeback of _run_cluster, lines 625-633, on the reloaded dataset:
\* write_design, and write_error when the operation or write_design raised
run_cluster_writeback(w, h, dsg, files, lk) ==
    IF dsg.err
      THEN write_error(w, h, dsg.job, files, lk)
      ELSE LET r == write_design(w, h, dsg, files, lk)
           IN IF r.raised = "none" THEN r ELSE write_error(w, h, dsg.job, files, lk)

\* the writeback applied to the caller's dataset as well as to the files
CluWrite_on_caller(w) ==
    /\ pc[w] = "clu_writing"
    /\ LET r == run_cluster_writeback(w, held[w], design[w], disk, lock)
       IN /\ disk' = r.files
          /\ lock' = r.lock
          /\ pc' = [pc EXCEPT ![w] = IF r.raised = "none" THEN "clu_loop" ELSE "done"]
          /\ raised' = [raised EXCEPT ![w] = r.raised]
          /\ mem' = [mem EXCEPT ![w] =
                         IF r.raised = "none" THEN from_file_attempt(r.files, @.filename) ELSE @]
    /\ design' = [design EXCEPT ![w] = NoDesign]
    /\ held' = [held EXCEPT ![w] = ExperimentData_init]
    /\ UNCHANGED <<parameter, designspace,
                   workers, retry, start, mode, operation, options, designs, evald>>

CluWrite(w) ==
    /\ pc[w] = "clu_writing"
    /\ LET r == run_cluster_writeback(w, held[w], design[w], disk, lock)
       IN /\ disk' = r.files
          /\ lock' = r.lock
          /\ pc' = [pc EXCEPT ![w] = IF r.raised = "none" THEN "clu_loop" ELSE "done"]
          /\ raised' = [raised EXCEPT ![w] = r.raised]
    /\ design' = [design EXCEPT ![w] = NoDesign]
    /\ held' = [held EXCEPT ![w] = ExperimentData_init]
    /\ UNCHANGED <<parameter, designspace,
                   workers, retry, start, mem, mode, operation, options, designs, evald>>

(***************************************************************************)
(* access_file when the lock is taken: bounded retry with a backoff sleep  *)
(* between attempts, then a fatal LockTimeoutError.  A crashed process     *)
(* keeps the lock it holds.                                                *)
(***************************************************************************)
MaxLockTries == 2     \* failed attempts after which the next one is fatal

LockPoints == {"clu_loop", "clu_write"}

\* the lock is taken by another process: count the failed attempt and sleep
AccessFileBusy_not_counting(w, from) ==
    /\ pc[w] = from
    /\ ~retry[w].asleep
    /\ lock # {}
    /\ retry' = [retry EXCEPT ![w] = [n |-> retry[w].n, asleep |-> TRUE]]
    /\ UNCHANGED <<parameter, designspace,
                   workers, start, mem, disk, lock, pc, mode, operation, design, held, options,
                   designs, evald, raised>>

AccessFileBusy(w, from) ==
    /\ pc[w] = from
    /\ ~retry[w].asleep
    /\ lock # {}
    /\ retry[w].n < MaxLockTries
    /\ retry' = [retry EXCEPT ![w] = [n |-> retry[w].n + 1, asleep |-> TRUE]]
    /\ UNCHANGED <<parameter, designspace,
                   workers, start, mem, disk, lock, pc, mode, operation, design, held, options,
                   designs, evald, raised>>

\* the backoff sleep is over
AccessFileWake(w) ==
    /\ pc[w] \in LockPoints
    /\ retry[w].asleep
    /\ retry' = [retry EXCEPT ![w].asleep = FALSE]
    /\ UNCHANGED <<parameter, designspace,
                   workers, start, mem, disk, lock, pc, mode, operation, design, held, options,
                   designs, evald, raised>>

\* the lock is still taken after MaxLockTries failed attempts: the decorated
\* method raises LockTimeoutError.  From get_open_job_data it leaves run
\* (line 620 catches NoOpenJobsError only); from write_design it is caught
\* by the except of line 628, which calls write_error (line 632), whose own
\* timeout leaves run
AccessFileTimeout(w, from) ==
    /\ pc[w] = from
    /\ ~retry[w].asleep
    /\ lock # {}
    /\ retry[w].n >= MaxLockTries
    /\ retry' = [retry EXCEPT ![w] = NoRetry]
    /\ IF from = "clu_write" /\ ~design[w].err
         THEN /\ design' = [design EXCEPT ![w].err = TRUE]
              /\ UNCHANGED <<pc, raised>>
         ELSE /\ pc' = [pc EXCEPT ![w] = "done"]
              /\ raised' = [raised EXCEPT ![w] = "LockTimeoutError"]
              /\ UNCHANGED design
    /\ UNCHANGED <<parameter, designspace,
                   workers, start, mem, disk, lock, mode, operation, held, options, designs,
                   evald>>

\* the process of w dies inside run; what it persisted and the lock it
\* holds stay as they are
Crash(w) ==
    /\ pc[w] \notin {"idle", "done", "crashed"}
    /\ pc' = [pc EXCEPT ![w] = "crashed"]
    /\ UNCHANGED <<parameter, designspace,
                   workers, retry, start, mem, disk, lock, mode, operation, design, held,
                   options, designs, evald, raised>>

(***************************************************************************)
(* Specification Spec: one process building and editing a dataset.         *)
(***************************************************************************)
SeqsOf(S, lo, hi) == UNION {[1..k -> S] : k \in lo..hi}

InputBatches == SeqsOf(InputVals, 1, MaxBatch)
OutputVals == {1}
OutputBatches == SeqsOf(OutputVals, 1, MaxBatch)
IndexLists == SeqsOf(0..(MaxRows - 1), 0, MaxBatch)

(***************************************************************************)
(* The parameter classes (src/src/f3dasm/design/parameter.py).             *)
(*                                                                         *)
(* A Python value that may be passed as a bound carries its type ("float", *)
(* "int", "bool", "str", "list") and, for a number, its kind: "num" with   *)
(* the value v, or one of "nan", "inf", "-inf" (floats only).  A bool is   *)
(* an int to isinstance; a list is the value that cannot be hashed.        *)
(***************************************************************************)
Py(type, kind, v) == [type |-> type, kind |-> kind, v |-> v]

\* a < b and a == b on Python numbers: every comparison with NaN is False
py_lt(a, b) ==
    IF a.kind = "nan" \/ b.kind = "nan" THEN FALSE
    ELSE IF a.kind = "inf" \/ b.kind = "-inf" THEN FALSE
    ELSE IF a.kind = "-inf" \/ b.kind = "inf" THEN TRUE
    ELSE a.v < b.v

py_eq(a, b) ==
    IF a.kind = "nan" \/ b.kind = "nan" THEN FALSE
    ELSE a.kind = b.kind /\ a.v = b.v

\* what a call ends with: an exception, or the object it returns
Raises(exc) == [raised |-> exc, obj |-> [class |-> "none"]]
Returns(o) == [raised |-> "none", obj |-> o]

\* the keyword arguments the generated __init__ of a dataclass takes, and
\* those of them that have no default
Fields(class) ==
    CASE class = "Parameter" ->
             [init |-> {"name"}, required |-> {"name"}]
      [] class = "ConstantParameter" ->
             [init |-> {"name", "value"}, required |-> {"name", "value"}]
      [] class = "ContinuousParameter" ->
             [init |-> {"name", "lower_bound", "upper_bound"}, required |-> {"name"}]
      [] class = "DiscreteParameter" ->
             [init |-> {"name", "lower_bound", "upper_bound"}, required |-> {"name"}]
      [] class = "CategoricalParameter" ->
             [init |-> {"name", "categories"}, required |-> {"name", "categories"}]

\* the keyword argument, or the default of the field
KwArg(kwargs, key, default) == IF key \in DOMAIN kwargs THEN kwargs[key] ELSE default

\* ContinuousParameter(name, lower_bound=-inf, upper_bound=inf): __post_init__
\* runs _check_types (both bounds are floats), then _check_range
ContinuousParameter(kwargs) ==
    LET lower_bound == KwArg(kwargs, "lower_bound", Py("float", "-inf", 0))
        upper_bound == KwArg(kwargs, "upper_bound", Py("float", "inf", 0))
    IN  IF lower_bound.type # "float" \/ upper_bound.type # "float" THEN Raises("TypeError")
        ELSE IF py_lt(upper_bound, lower_bound) THEN Raises("ValueError")
        ELSE IF py_eq(upper_bound, lower_bound) THEN Raises("ValueError")
        ELSE Returns([class |-> "ContinuousParameter", name |-> kwargs.name,
                      lower_bound |-> lower_bound, upper_bound |-> upper_bound,
                      _type |-> "float"])

\* DiscreteParameter(name, lower_bound=0, upper_bound=1): __post_init__ runs
\* _check_types (both bounds are ints), then _check_range
DiscreteParameter(kwargs) ==
    LET lower_bound == KwArg(kwargs, "lower_bound", Py("int", "num", 0))
        upper_bound == KwArg(kwargs, "upper_bound", Py("int", "num", 1))
    IN  IF lower_bound.type \notin {"int", "bool"} \/ upper_bound.type \notin {"int", "bool"}
          THEN Raises("TypeError")
        ELSE IF py_lt(upper_bound, lower_bound) THEN Raises("ValueError")
        ELSE IF py_eq(upper_bound, lower_bound) THEN Raises("ValueError")
        ELSE Returns([class |-> "DiscreteParameter", name |-> kwargs.name,
                      lower_bound |-> lower_bound, upper_bound |-> upper_bound,
                      _type |-> "int"])

\* the set of the entries of a list
SetOf(names) == {names[i] : i \in 1..Len(names)}

\* cls(**kwargs): the generated __init__ rejects a missing or an unexpected
\* keyword with TypeError, then __post_init__ runs.  ConstantParameter
\* wants a hashable value; CategoricalParameter wants strings (checked
\* first) without duplicates.
Construct(class, kwargs) ==
    IF (DOMAIN kwargs) \ Fields(class).init # {} \/ Fields(class).required \ (DOMAIN kwargs) # {}
      THEN Raises("TypeError")
    ELSE CASE class = "Parameter" ->
                  Returns([class |-> "Parameter", name |-> kwargs.name, _type |-> "object"])
           [] class = "ConstantParameter" ->
                  IF kwargs.value.type = "list" THEN Raises("TypeError")
                  ELSE Returns([class |-> "ConstantParameter", name |-> kwargs.name,
                                value |-> kwargs.value, _type |-> "object"])
           [] class = "ContinuousParameter" -> ContinuousParameter(kwargs)
           [] class = "DiscreteParameter" -> DiscreteParameter(kwargs)
           [] class = "CategoricalParameter" ->
                  IF \E i \in 1..Len(kwargs.categories) : kwargs.categories[i].type # "str"
                    THEN Raises("TypeError")
                  ELSE IF Len(kwargs.categories) # Cardinality(SetOf(kwargs.categories))
                    THEN Raises("ValueError")
                  ELSE Returns([class |-> "CategoricalParameter", name |-> kwargs.name,
                                categories |-> kwargs.categories, _type |-> "category"])

\* the module-level list PARAMETERS (line 247), by class name
PARAMETERS ==
    <<"CategoricalParameter", "ConstantParameter", "ContinuousParameter", "DiscreteParameter">>

\* _find_parameter(query): the first class of PARAMETERS with that name;
\* when there is none the exception object is RETURNED (line 283), not raised
find_parameter(query) ==
    LET found == SelectSeq(PARAMETERS, LAMBDA class : class = query)
    IN  IF Len(found) > 0 THEN [callable |-> TRUE, class |-> found[1]]
        ELSE [callable |-> FALSE, class |-> "F3DASMParameterNotFoundError"]

\* Parameter.from_dict(parameter_dict, name), called on class cls: calling
\* the object that _find_parameter returned; an exception instance is not
\* callable, which is a TypeError
from_dict(cls, parameter_dict, name) ==
    IF name = "Parameter" THEN Construct(cls, parameter_dict)
    ELSE IF find_parameter(name).callable
      THEN Construct(find_parameter(name).class, parameter_dict)
    ELSE Raises("TypeError")

\* Parameter.from_json(json_string): the string decodes to the pair
\* (parameter_dict, name)
from_json(cls, json_string) ==
    LET parameter_dict == json_string[1]
        name == json_string[2]
    IN  from_dict(cls, parameter_dict, name)

\* no call made yet
NoCall == [op |-> "none", cls |-> "none", name |-> "none", kwargs |-> [name |-> "none"],
           result |-> Raises("none")]

(***************************************************************************)
(* DesignSpace (src/src/f3dasm/design/design.py): two lists of Parameter   *)
(* objects.  The constraints list plays no part in the name checks.        *)
(***************************************************************************)
\* get_input_names, get_output_names: the (label, name) pair of every parameter, in order
get_input_names(self) == [i \in 1..Len(self.input_space) |-> <<"input", self.input_space[i].name>>]
get_output_names(self) == [i \in 1..Len(self.output_space) |-> <<"output", self.output_space[i].name>>]

\* DesignSpace._check_names: the exception raised, or "none"
check_names(self) ==
    IF Len(get_input_names(self)) # Cardinality(SetOf(get_input_names(self)))
      THEN "F3DASMDesignSpaceDuplicateNameError"
    ELSE IF Len(get_output_names(self)) # Cardinality(SetOf(get_output_names(self)))
      THEN "F3DASMDesignSpaceDuplicateNameError"
    ELSE "none"

\* DesignSpace(input_space, output_space): __post_init__ checks the names
DesignSpace(input_space, output_space) ==
    LET self == [input_space |-> input_space, output_space |-> output_space]
    IN  IF check_names(self) # "none" THEN Raises(check_names(self)) ELSE Returns(self)

\* DesignSpace.add_input_space(space), add_output_space(space): a bare append
add_input_space(self, space) == [self EXCEPT !.input_space = Append(@, space)]
add_output_space(self, space) == [self EXCEPT !.output_space = Append(@, space)]

InitProcs(W, d0, files, op) ==
    /\ workers = W
    /\ mem = [w \in W |-> d0]
    /\ disk = files
    /\ lock = {}
    /\ pc = [w \in W |-> "idle"]
    /\ mode = [w \in W |-> "sequential"]
    /\ operation = [w \in W |-> op]
    /\ design = [w \in W |-> NoDesign]
    /\ held = [w \in W |-> ExperimentData_init]
    /\ options = [w \in W |-> <<>>]
    /\ designs = [w \in W |-> <<>>]
    /\ evald = [w \in W |-> <<>>]
    /\ raised = [w \in W |-> "none"]
    /\ start = [w \in W |-> NoStart]
    /\ retry = [w \in W |-> NoRetry]
    /\ parameter = NoCall
    /\ designspace = Raises("none")

Init == InitProcs({1}, ExperimentData_init, EmptyDisk, "square")

Next ==
    \/ \E w \in workers, data \in InputBatches : Add(w, data)
    \/ \E w \in workers, input \in InputBatches : AddNumpyArrays(w, input, FALSE, <<>>)
    \/ \E w \in workers, input \in InputBatches, output \in OutputBatches :
           AddNumpyArrays(w, input, TRUE, output)
    \/ \E w \in workers, n \in 0..MaxRows : RemoveRowsBottom(w, n)
    \/ \E w \in workers, indices \in IndexLists : Select(w, indices)
    \/ \E w \in workers : ResetData(w)

Spec == Init /\ [][Next]_vars

(***************************************************************************)
(* Specification SpecRun: one process holding a dataset of up to MaxJobs   *)
(* rows, as loaded from persisted files whose ledger may hold any status,  *)
(* calling run in any mode, the point mutations, store and from_file.      *)
(***************************************************************************)
MaxJobs == 3

\* the output cell persisted with a row of the given status
SeedCell(x, st) ==
    IF st = FINISHED THEN ValueCell(x * x)
    ELSE IF st = ERROR THEN ErrorCell
    ELSE UnsetCell

\* the files of a persisted dataset with inputs xs and ledger statuses sts
SeedFiles(xs, sts) ==
    [f \in FileKeys |->
        IF f[2] = "_data"
          THEN File([columns |-> DefaultDomain,
                     rows |-> [k \in 1..Len(xs) |-> [i |-> k - 1, v |-> xs[k]]]])
        ELSE IF f[2] = "_output"
          THEN File([k \in 1..Len(xs) |-> [i |-> k - 1, v |-> SeedCell(xs[k], sts[k])]])
        ELSE IF f[2] = "_jobs" THEN File([k \in 1..Len(xs) |-> [i |-> k - 1, s |-> sts[k]]])
        ELSE File(DefaultDomain)]

SeedDatasetsOf(sizes, statuses) ==
    UNION {{from_file_attempt(SeedFiles(xs, sts), DefaultFilename) :
               xs \in [1..n -> InputVals], sts \in [1..n -> statuses]} : n \in sizes}

SeedDatasets == SeedDatasetsOf(1..MaxJobs, Status)

InitRun ==
    \E d0 \in SeedDatasets :
        \E files \in {EmptyDisk, store(d0, d0.filename, EmptyDisk)} :
            InitProcs({1}, d0, files, "square")

NextRun ==
    \/ \E w \in workers, callable \in BOOLEAN, op \in Operations, m \in Modes :
           Run(w, callable, op, m)
    \/ \E w \in workers : Return(w)
    \/ \E w \in workers : SeqClaim(w)
    \/ \E w \in workers : SeqEval(w)
    \/ \E w \in workers : ParClaim(w)
    \/ \E w \in workers, k \in 1..MaxJobs : ParTask(w, k)
    \/ \E w \in workers : ParJoin(w)
    \/ \E w \in workers : ParWrite(w)
    \/ \E w \in workers : CluLoad(w)
    \/ \E w \in workers : CluStore(w)
    \/ \E w \in workers : CluEnterClaim(w)
    \/ \E w \in workers : CluClaim(w)
    \/ \E w \in workers : CluEval(w)
    \/ \E w \in workers : CluEnterWrite(w)
    \/ \E w \in workers : CluWrite(w)
    \/ \E w \in workers, filename \in Filenames : Store(w, filename)
    \/ \E w \in workers, filename \in Filenames : FromFile(w, filename)

SpecRun == InitRun /\ [][NextRun]_vars

(***************************************************************************)
(* Specification SpecOps: one process applying the point mutations of the  *)
(* dataset (claim, set_design, set_outputdata_by_index, set_error) and     *)
(* sequential runs to a seeded dataset.                                    *)
(***************************************************************************)
NextOps ==
    \/ \E w \in workers, index \in 0..(MaxJobs - 1), value \in OutputVals :
           SetDesign(w, index, value)
    \/ \E w \in workers, index \in 0..(MaxJobs - 1), value \in OutputVals :
           SetOutputdataByIndex(w, index, value)
    \/ \E w \in workers, index \in 0..(MaxJobs - 1) : SetError(w, index)
    \/ \E w \in workers : AccessOpenJobData(w)
    \/ \E w \in workers, op \in Operations : Run(w, TRUE, op, "sequential")
    \/ \E w \in workers : Return(w)
    \/ \E w \in workers : SeqClaim(w)
    \/ \E w \in workers : SeqEval(w)

SpecOps == InitRun /\ [][NextOps]_vars

(***************************************************************************)
(* Specification SpecPoint: the operations of SpecOps applied to the       *)
(* smaller seeded datasets, of fewer than MaxJobs rows.                    *)
(***************************************************************************)
PointSeedDatasets == SeedDatasetsOf(1..(MaxJobs - 1), Status)

InitPoint ==
    \E d0 \in PointSeedDatasets :
        \E files \in {EmptyDisk, store(d0, d0.filename, EmptyDisk)} :
            InitProcs({1}, d0, files, "square")

SpecPoint == InitPoint /\ [][NextOps]_vars

(***************************************************************************)
(* Specification SpecSchema: one process extending the schema of a seeded  *)
(* dataset, resetting it, storing it and loading it.                       *)
(***************************************************************************)
ColumnNames == {"x0", "x1", "x2"}

NextSchema ==
    \/ \E w \in workers, name \in ColumnNames : AddNewInputColumn(w, name)
    \/ \E w \in workers : ResetData(w)
    \/ \E w \in workers, filename \in Filenames : Store(w, filename)
    \/ \E w \in workers, filename \in Filenames : FromFile(w, filename)

SpecSchema == InitPoint /\ [][NextSchema]_vars

(***************************************************************************)
(* Specification SpecRows: one process selecting rows of a seeded dataset  *)
(* and removing rows from its bottom.  The index lists given to select     *)
(* name each index once.                                                   *)
(***************************************************************************)
DistinctIndexLists ==
    {indices \in IndexLists :
        \A j, k \in 1..Len(indices) : indices[j] = indices[k] => j = k}

NextRows ==
    \/ \E w \in workers, indices \in DistinctIndexLists : Select(w, indices)
    \/ \E w \in workers, n \in 0..MaxRows : RemoveRowsBottom(w, n)

SpecRows == InitPoint /\ [][NextRows]_vars

(***************************************************************************)
(* Specification SpecFiles: one process loading and storing a dataset when *)
(* any of the four files of the persisted dataset may be missing.          *)
(***************************************************************************)
\* the files without those of the given suffixes
WithoutFiles(files, missing) ==
    [f \in FileKeys |-> IF f[2] \in missing THEN MissingFile ELSE files[f]]

InitFiles ==
    \E d0 \in PointSeedDatasets : \E missing \in SUBSET Suffixes :
        InitProcs({1}, ExperimentData_init,
                  WithoutFiles(store(d0, d0.filename, EmptyDisk), missing), "square")

NextFiles ==
    \/ \E w \in workers, filename \in Filenames : FromFile(w, filename)
    \/ \E w \in workers, filename \in Filenames : Store(w, filename)

SpecFiles == InitFiles /\ [][NextFiles]_vars

(***************************************************************************)
(* Specification SpecCluster: NWorkers processes, each holding the same    *)
(* dataset in memory, each calling run(operation, 'cluster') once, against *)
(* the same files; the files exist already or not.  The rows of the        *)
(* dataset are open or finished.                                           *)
(***************************************************************************)
ClusterSizes == {1, 2}
ClusterSeedDatasets == SeedDatasetsOf(ClusterSizes, {OPEN, FINISHED})

InitCluster ==
    \E d0 \in ClusterSeedDatasets :
        \E files \in {EmptyDisk, store(d0, d0.filename, EmptyDisk)} :
            \E op \in Operations : InitProcs(1..NWorkers, d0, files, op)

\* a process calls run(operation, 'cluster')
ClusterStart(w) ==
    /\ pc[w] = "idle"
    /\ Run(w, TRUE, operation[w], "cluster")

NextCluster ==
    \/ \E w \in workers : ClusterStart(w)
    \/ \E w \in workers : CluLoad(w)
    \/ \E w \in workers : CluStore(w)
    \/ \E w \in workers : CluEnterClaim(w)
    \/ \E w \in workers : CluClaim(w)
    \/ \E w \in workers : CluEval(w)
    \/ \E w \in workers : CluEnterWrite(w)
    \/ \E w \in workers : CluWrite(w)

SpecCluster == InitCluster /\ [][NextCluster]_vars

(***************************************************************************)
(* Specification SpecFair: the cluster processes of SpecCluster when none  *)
(* of them crashes and each of them keeps taking steps: a process waiting  *)
(* for the lock takes it once it stays free.                               *)
(***************************************************************************)
FairWorkers == {1, 2}

InitFair ==
    \E d0 \in ClusterSeedDatasets :
        \E files \in {EmptyDisk, store(d0, d0.filename, EmptyDisk)} :
            \E op \in Operations : InitProcs(FairWorkers, d0, files, op)

\* a step of the cluster process w
ClusterStep(w) ==
    \/ ClusterStart(w)
    \/ CluLoad(w)
    \/ CluStore(w)
    \/ CluEnterClaim(w)
    \/ CluClaim(w)
    \/ CluEval(w)
    \/ CluEnterWrite(w)
    \/ CluWrite(w)

SpecFair ==
    /\ InitFair
    /\ [][NextCluster]_vars
    /\ \A w \in FairWorkers : WF_vars(ClusterStep(w))

(***************************************************************************)
(* Specification SpecLock: the cluster processes with lock contention,     *)
(* lock timeouts and crashes.  A process that has not crashed keeps        *)
(* taking steps.                                                           *)
(***************************************************************************)
LockWorkers == {1, 2}
LockSeedDatasets == SeedDatasetsOf({1}, {OPEN})

InitLock ==
    \E d0 \in LockSeedDatasets :
        \E files \in {EmptyDisk, store(d0, d0.filename, EmptyDisk)} :
            \E op \in Operations : InitProcs(LockWorkers, d0, files, op)

\* a step of the running process w
LockStep(w) ==
    \/ ClusterStart(w)
    \/ CluLoad(w)
    \/ CluStore(w)
    \/ CluEnterClaim(w)
    \/ CluClaim(w)
    \/ CluEval(w)
    \/ CluEnterWrite(w)
    \/ CluWrite(w)
    \/ \E from \in LockPoints : AccessFileBusy(w, from)
    \/ AccessFileWake(w)
    \/ \E from \in LockPoints : AccessFileTimeout(w, from)

NextLock ==
    \/ \E w \in workers : ClusterStart(w)
    \/ \E w \in workers : CluLoad(w)
    \/ \E w \in workers : CluStore(w)
    \/ \E w \in workers : CluEnterClaim(w)
    \/ \E w \in workers : CluClaim(w)
    \/ \E w \in workers : CluEval(w)
    \/ \E w \in workers : CluEnterWrite(w)
    \/ \E w \in workers : CluWrite(w)
    \/ \E w \in workers, from \in LockPoints : AccessFileBusy(w, from)
    \/ \E w \in workers : AccessFileWake(w)
    \/ \E w \in workers, from \in LockPoints : AccessFileTimeout(w, from)
    \/ \E w \in workers : Crash(w)

SpecLock ==
    /\ InitLock
    /\ [][NextLock]_vars
    /\ \A w \in LockWorkers : WF_vars(LockStep(w))

(***************************************************************************)
(* Properties.                                                             *)
(***************************************************************************)
Terminal == {FINISHED, ERROR}
AllTerminal(jobs) == \A k \in 1..Len(jobs) : jobs[k].s \in Terminal
NoneInProgress(jobs) == \A k \in 1..Len(jobs) : jobs[k].s # IN_PROGRESS

LenAligned(d) ==
    /\ Len(d.jobs) = Len(d.input_data)
    /\ Len(d.input_data) = Len(d.output_data)

IndexAligned(d) ==
    /\ Indices(d.input_data) = Indices(d.output_data)
    /\ Indices(d.input_data) = Indices(d.jobs)

SameTables(a, b) ==
    /\ a.input_data = b.input_data
    /\ a.output_data = b.output_data
    /\ a.jobs = b.jobs

\* the places where the operation was evaluated on row index i
EvaluationsOf(i) ==
    UNION {{<<w, k>> : k \in {n \in 1..Len(evald[w]) : evald[w][n] = i}} : w \in workers}

\* the processes that have claimed row index i and not yet evaluated it
ClaimedUnevaluated(i) == {w \in workers : pc[w] = "clu_eval" /\ design[w].job = i}

\* the evaluations of the run of w for which the operation raised
RaisingEvals(w) ==
    {k \in 1..Len(evald[w]) :
        OperationRaises(operation[w], get_design(start[w].data, evald[w][k]))}

SequentialRunReturned(w) ==
    /\ pc[w] = "done"
    /\ Lower(mode[w]) = "sequential"
    /\ operation[w] \in Operations
    /\ raised[w] = "none"

AllOpenAtStart(w) ==
    \A k \in 1..Len(start[w].data.jobs) : start[w].data.jobs[k].s = OPEN

\* C1: in cluster mode, under every interleaving and whether or
\* not the files exist when the workers start, each row index is claimed by
\* at most one worker and the operation is evaluated at most once per index.
C1_AtMostOnceClaim ==
    \A i \in 0..(MaxJobs - 1) :
        Cardinality(EvaluationsOf(i)) + Cardinality(ClaimedUnevaluated(i)) <= 1

\* C2: when a sequential run over jobs that were all OPEN
\* returns and the operation raised for exactly one of them, that job has
\* status ERROR and the 'ERROR' output cell, and the others are FINISHED.
C2_FailureIsolation ==
    \A w \in workers :
        (SequentialRunReturned(w) /\ AllOpenAtStart(w) /\ Cardinality(RaisingEvals(w)) = 1) =>
            \A k \in 1..Len(evald[w]) :
                IF k \in RaisingEvals(w)
                  THEN /\ StatusOf(mem[w].jobs, evald[w][k]) = ERROR
                       /\ Data_get(mem[w].output_data, evald[w][k]) = ErrorCell
                  ELSE StatusOf(mem[w].jobs, evald[w][k]) = FINISHED

\* C3: a row whose status is FINISHED or ERROR never changes
\* to another status, whatever dataset operation is applied.
C3_TerminalStatusesStay ==
    [][\A w \in workers : \A k \in 1..Len(mem[w].jobs) :
          mem[w].jobs[k].s \in Terminal =>
              /\ k <= Len(mem'[w].jobs)
              /\ mem'[w].jobs[k].s = mem[w].jobs[k].s]_vars

\* C4: after any sequence of appends (add, add_numpy_arrays with or without
\* outputs) the ledger, the input store and the output store have the same
\* number of rows.
C4_LengthsAlwaysEqual == \A w \in workers : LenAligned(mem[w])

\* C5: after any sequence of structural edits (add, add_numpy_arrays,
\* remove_rows_bottom, select, reset_data) the row indices
\* of the input store, the output store and the ledger are the same, in the
\* same order.
C5_IndicesAlwaysEqual == \A w \in workers : IndexAligned(mem[w])

\* C6: when a sequential run returns that started from a ledger without
\* IN_PROGRESS rows, every row is FINISHED or ERROR.
C6_CompletedRunAllTerminal ==
    \A w \in workers :
        (SequentialRunReturned(w) /\ NoneInProgress(start[w].data.jobs)) =>
            AllTerminal(mem[w].jobs)

C6_Witness ==
    \E w \in workers :
        /\ SequentialRunReturned(w)
        /\ NoneInProgress(start[w].data.jobs)
        /\ Len(evald[w]) >= 2
        /\ RaisingEvals(w) # {}
        /\ \E k \in 1..Len(start[w].data.jobs) : start[w].data.jobs[k].s = ERROR

\* C7: in a sequential run in which the operation never raises, every
\* evaluated row index is larger than the indices evaluated before it.
C7_IncreasingOrder ==
    \A w \in workers :
        (Lower(mode[w]) = "sequential" /\ RaisingEvals(w) = {}) =>
            \A j, k \in 1..Len(evald[w]) : j < k => evald[w][j] < evald[w][k]

C7_Witness ==
    \E w \in workers :
        /\ SequentialRunReturned(w)
        /\ RaisingEvals(w) = {}
        /\ Len(evald[w]) = MaxJobs

\* the files held a persisted copy when run was called
HadFiles(w) == ~FromFileNotFound(start[w].files, start[w].data.filename)
StartLedgerOnDisk(w) == start[w].files[<<start[w].data.filename, "_jobs">>].content
StartOutputOnDisk(w) == start[w].files[<<start[w].data.filename, "_output">>].content

\* the run of w is a cluster run that found a persisted copy to reload
ReloadsCopy(w) == Lower(mode[w]) = "cluster" /\ operation[w] \in Operations /\ HadFiles(w)
CopyAllTerminal(w) == ReloadsCopy(w) => AllTerminal(StartLedgerOnDisk(w))
CopyAsAtStart(w) ==
    /\ disk[<<mem[w].filename, "_jobs">>].content = StartLedgerOnDisk(w)
    /\ disk[<<mem[w].filename, "_output">>].content = StartOutputOnDisk(w)

NothingDone(w) ==
    /\ evald[w] = <<>>
    /\ mem[w].jobs = start[w].data.jobs
    /\ mem[w].output_data = start[w].data.output_data

\* C8 (as claimed): run, in any mode, on a dataset whose rows are all
\* FINISHED or ERROR evaluates nothing and leaves ledger and outputs as
\* they were.
C8_NoWorkOnFinishedDataset ==
    \A w \in workers :
        (pc[w] # "idle" /\ AllTerminal(start[w].data.jobs)) => NothingDone(w)

\* C8 (amended): the same, provided that in cluster mode the persisted copy
\* that run reloads, when there is one, has all its rows FINISHED or ERROR
\* too; that copy is then left as it was as well.
C8_NoWorkOnFinishedDatasetAndCopy ==
    \A w \in workers :
        (pc[w] # "idle" /\ AllTerminal(start[w].data.jobs) /\ CopyAllTerminal(w)) =>
            (NothingDone(w) /\ (ReloadsCopy(w) => CopyAsAtStart(w)))

C8_Witness ==
    \E w \in workers :
        /\ pc[w] = "done"
        /\ mode[w] = "cluster"
        /\ raised[w] = "none"
        /\ HadFiles(w)
        /\ AllTerminal(start[w].data.jobs)
        /\ AllTerminal(StartLedgerOnDisk(w))
        /\ Len(StartLedgerOnDisk(w)) >= 2
        /\ \E k \in 1..Len(StartLedgerOnDisk(w)) : StartLedgerOnDisk(w)[k].s = ERROR

C10_NoEvaluationUnderLock ==
    [][\A w \in workers :
          /\ (w \in lock => pc[w] \in {"clu_claiming", "clu_writing"})
          /\ (w \in lock' => pc'[w] \in {"clu_claiming", "clu_writing"})
          /\ (evald'[w] # evald[w] => (w \notin lock /\ w \notin lock'))]_vars

C10_Witness ==
    \E w1, w2 \in workers :
        /\ w1 # w2
        /\ pc[w1] = "clu_eval"
        /\ w2 \in lock
        /\ evald[w2] # <<>>

\* the step of w reads or writes the persisted files: the reload and the
\* first persist at the start of _run_cluster, and the bodies of the
\* decorated methods
AccessesFiles(w) ==
    /\ pc[w] \in {"clu_load", "clu_store", "clu_claiming", "clu_writing"}
    /\ pc'[w] # pc[w]

\* C11: in cluster mode every step of a worker that reads or writes the
\* persisted files, the reload and the persist at the start of _run_cluster
\* included, is taken while that worker holds the exclusive lock.
C11_FileAccessUnderLock ==
    [][\A w \in workers : AccessesFiles(w) => w \in lock]_vars

\* C12: in cluster mode the initial persist of a worker's in-memory dataset
\* happens only if no persisted copy exists at the moment of the write.
C12_InitialPersistOnlyWithoutCopy ==
    [][\A w \in workers :
          (pc[w] = "clu_store" /\ pc'[w] # "clu_store") =>
              FromFileNotFound(disk, mem[w].filename)]_vars

\* w waits for the lock while a crashed process holds it
Stalled(w) == pc[w] \in LockPoints /\ \E v \in lock : pc[v] = "crashed"

TimedOut(w) == pc[w] = "done" /\ raised[w] = "LockTimeoutError"

\* C13: a worker waiting for a lock that a dead process holds eventually
\* leaves run with the fatal LockTimeoutError (unless it dies itself), and
\* every failed attempt to take the lock is followed by a backoff sleep
\* before the next attempt.
C13_LockTimeout ==
    /\ \A w \in LockWorkers : Stalled(w) ~> (TimedOut(w) \/ pc[w] = "crashed")
    /\ [][\A w \in LockWorkers :
            /\ (retry'[w].n > retry[w].n) => (~retry[w].asleep /\ retry'[w].asleep)
            /\ (w \in lock' /\ w \notin lock) => ~retry[w].asleep
            /\ (TimedOut(w)' /\ ~TimedOut(w)) => ~retry[w].asleep]_vars

C13_Witness ==
    \E w \in workers :
        /\ TimedOut(w)
        /\ evald[w] # <<>>
        /\ \E v \in lock : pc[v] = "crashed"

\* the run of w was a parallel run with an operation, and has ended
ParallelRunEnded(w) ==
    /\ pc[w] = "done"
    /\ Lower(mode[w]) = "parallel"
    /\ operation[w] \in Operations

\* C14: when a parallel run over jobs that were all OPEN has ended and the
\* operation raised for exactly one of them, the other jobs are FINISHED
\* and the failed job is ERROR.
C14_ParallelFailureIsolation ==
    \A w \in workers :
        (ParallelRunEnded(w) /\ AllOpenAtStart(w) /\ Cardinality(RaisingEvals(w)) = 1) =>
            \A k \in 1..Len(evald[w]) :
                StatusOf(mem[w].jobs, evald[w][k]) =
                    IF k \in RaisingEvals(w) THEN ERROR ELSE FINISHED

\* the persisted ledger and output table
LedgerOnDisk(files, filename) == files[<<filename, "_jobs">>].content
OutputOnDisk(files, filename) == files[<<filename, "_output">>].content

\* C15: in cluster mode, the writeback of a job for which the operation
\* raised is made under the lock, leaves that job with status ERROR and the
\* 'ERROR' output cell in the persisted dataset, and the worker goes on to
\* claim the next job.
C15_ClusterErrorRecorded ==
    [][\A w \in workers :
          (pc[w] = "clu_writing" /\ design[w].err /\ pc'[w] # pc[w]) =>
              /\ w \in lock
              /\ StatusOf(LedgerOnDisk(disk', mem[w].filename), design[w].job) = ERROR
              /\ Data_get(OutputOnDisk(disk', mem[w].filename), design[w].job) = ErrorCell
              /\ pc'[w] = "clu_loop"]_vars

\* the files held no copy when run was called, or the copy of the dataset
\* run was called on
SameInitialDataset(w) ==
    HadFiles(w) => SameTables(from_file_attempt(start[w].files, start[w].data.filename),
                              start[w].data)

SameOutcome(a, b) == a.output_data = b.output_data /\ a.jobs = b.jobs

\* C16: for the same initial dataset and operation, a parallel run ends
\* with the output table and ledger of a sequential run, and so does a
\* cluster run in the persisted dataset.
C16_SameAsSequential ==
    \A w \in workers :
        (pc[w] = "done" /\ operation[w] \in Operations) =>
            /\ Lower(mode[w]) = "parallel" =>
                  SameOutcome(mem[w], run_sequential(start[w].data, operation[w]))
            /\ (Lower(mode[w]) = "cluster" /\ SameInitialDataset(w)) =>
                  SameOutcome(from_file_attempt(disk, mem[w].filename),
                              run_sequential(start[w].data, operation[w]))

ValidModes == {"sequential", "parallel", "cluster"}

\* the message names the value: the value is one of its words
Names(message, value) == \E k \in 1..Len(message) : message[k] = value

\* C17: run called with an operation and a mode that is none of sequential,
\* parallel, cluster ends with a ValueError whose message names the mode
\* given, without claiming a job or changing a table.
C17_InvalidModeNamed ==
    \A w \in workers :
        (pc[w] # "idle" /\ operation[w] \in Operations /\ Lower(mode[w]) \notin ValidModes) =>
            /\ pc[w] = "done"
            /\ raised[w] = "ValueError"
            /\ Names(InvalidModeMessage, mode[w])
            /\ mem[w] = start[w].data
            /\ evald[w] = <<>>

\* the lowest row index among the rows with status OPEN
LowestOpen(jobs) ==
    CHOOSE i \in OpenIndices(jobs) : \A j \in OpenIndices(jobs) : i <= j

\* the ledger with the row of index j set to IN_PROGRESS and no other change
ClaimedIn(jobs, j) ==
    [k \in 1..Len(jobs) |->
        [i |-> jobs[k].i, s |-> IF jobs[k].i = j THEN IN_PROGRESS ELSE jobs[k].s]]

\* C18: a claim (the access_open_job_data call of the sequential loop)
\* sets the lowest-index OPEN row, and no other row, to IN_PROGRESS and
\* returns the design of that index; without an OPEN row it ends with
\* NoOpenJobsError and leaves the ledger as it was.
C18_ClaimLowestOpen ==
    [][\A w \in workers :
          (pc[w] = "seq_claim" /\ pc'[w] # pc[w]) =>
              IF OpenIndices(mem[w].jobs) = {}
                THEN pc'[w] = "done" /\ mem'[w] = mem[w]
                ELSE LET j == LowestOpen(mem[w].jobs)
                     IN /\ pc'[w] = "seq_eval"
                        /\ design'[w].job = j
                        /\ design'[w].inp = Data_get(mem[w].input_data, j)
                        /\ design'[w].out = Data_get(mem[w].output_data, j)
                        /\ mem'[w].jobs = ClaimedIn(mem[w].jobs, j)
                        /\ mem'[w].input_data = mem[w].input_data
                        /\ mem'[w].output_data = mem[w].output_data]_vars

C18_Witness ==
    \E w \in workers :
        /\ pc[w] = "seq_eval"
        /\ design[w].job = 1
        /\ Len(mem[w].jobs) = MaxJobs
        /\ mem[w].jobs[1].s \in Terminal
        /\ mem[w].jobs[2].s = IN_PROGRESS
        /\ mem[w].jobs[3].s = OPEN

\* ledger e is ledger d followed by n more rows, all of the given status
AppendedWith(d, e, n, status) ==
    /\ Len(e) = Len(d) + n
    /\ \A k \in 1..Len(d) : e[k] = d[k]
    /\ \A k \in (Len(d) + 1)..Len(e) : e[k].s = status

\* C19: an append without outputs (add, add_numpy_arrays with output=None)
\* adds its rows to the ledger with status OPEN, add_numpy_arrays with an
\* output array adds them with status FINISHED, and the rows already
\* there keep their status.
C19_AppendStatuses ==
    [][\A w \in workers :
          Len(mem'[w].jobs) > Len(mem[w].jobs) =>
              /\ \A data \in InputBatches :
                     mem'[w] = add(mem[w], data) =>
                         AppendedWith(mem[w].jobs, mem'[w].jobs, Len(data), OPEN)
              /\ \A input \in InputBatches :
                     mem'[w] = add_numpy_arrays(mem[w], input, FALSE, <<>>) =>
                         AppendedWith(mem[w].jobs, mem'[w].jobs, Len(input), OPEN)
              /\ \A input \in InputBatches, output \in OutputBatches :
                     mem'[w] = add_numpy_arrays(mem[w], input, TRUE, output) =>
                         AppendedWith(mem[w].jobs, mem'[w].jobs, Len(input), FINISHED)]_vars

C19_Witness ==
    \E w \in workers :
        /\ Len(mem[w].jobs) = MaxRows
        /\ \E k \in 1..(Len(mem[w].jobs) - 1) :
               mem[w].jobs[k].s = FINISHED /\ mem[w].jobs[k + 1].s = OPEN
        /\ \E k \in 1..(Len(mem[w].jobs) - 1) :
               mem[w].jobs[k].s = OPEN /\ mem[w].jobs[k + 1].s = FINISHED

\* w crashed holding the claim of a job that the persisted ledger shows as
\* IN_PROGRESS
CrashedInProgress(w) ==
    /\ pc[w] = "crashed"
    /\ design[w] # NoDesign
    /\ ~FromFileNotFound(disk, mem[w].filename)
    /\ StatusOf(LedgerOnDisk(disk, mem[w].filename), design[w].job) = IN_PROGRESS

\* C20: the job claimed by a cluster worker that crashed before writing
\* back stays IN_PROGRESS in the persisted ledger, whatever the other
\* workers do.
C20_CrashedClaimStaysInProgress ==
    [][\A w \in workers :
          CrashedInProgress(w) =>
              StatusOf(LedgerOnDisk(disk', mem[w].filename), design[w].job) = IN_PROGRESS]_vars

\* the row indices the run of w evaluated the operation on
EvaluatedSet(w) == {evald[w][k] : k \in 1..Len(evald[w])}

\* C21: when a sequential run in which the operation never raised returns,
\* every row that was OPEN is FINISHED and holds the output the operation
\* returns for its input, and the rows that were FINISHED were not
\* evaluated and keep their status and output.
C21_SequentialRunOutputs ==
    \A w \in workers :
        (SequentialRunReturned(w) /\ RaisingEvals(w) = {}) =>
            \A k \in 1..Len(start[w].data.jobs) :
                LET i == start[w].data.jobs[k].i
                    before == start[w].data.jobs[k].s
                IN /\ before = OPEN =>
                        /\ StatusOf(mem[w].jobs, i) = FINISHED
                        /\ Data_get(mem[w].output_data, i) =
                               OperationResult(operation[w], get_design(start[w].data, i)).out
                   /\ before = FINISHED =>
                        /\ i \notin EvaluatedSet(w)
                        /\ StatusOf(mem[w].jobs, i) = FINISHED
                        /\ Data_get(mem[w].output_data, i) =
                               Data_get(start[w].data.output_data, i)

C21_Witness ==
    \E w \in workers :
        /\ SequentialRunReturned(w)
        /\ RaisingEvals(w) = {}
        /\ operation[w] = "square_raising_on_zero"
        /\ Len(start[w].data.jobs) = MaxJobs
        /\ Len(evald[w]) >= 2
        /\ \E k \in 1..Len(start[w].data.jobs) :
               /\ start[w].data.jobs[k].s = FINISHED
               /\ start[w].data.input_data[k].v = 0

\* the run of every process has ended
AllReturned == \A w \in workers : pc[w] = "done"

\* every row of the persisted ledger is FINISHED or ERROR
PersistedAllTerminal ==
    \A w \in workers :
        /\ ~FromFileNotFound(disk, mem[w].filename)
        /\ AllTerminal(LedgerOnDisk(disk, mem[w].filename))

SameButRow(a, b, j) ==
    /\ Len(b) = Len(a)
    /\ \A k \in 1..Len(a) : a[k].i # j => b[k] = a[k]

\* C23: in cluster mode the writeback of a worker for job j changes no row
\* of the persisted ledger and output table other than row j: what the
\* files held for the other rows just before the writeback is still there
\* after it.
C23_WritebackChangesOneRow ==
    [][\A w \in workers :
          (pc[w] = "clu_writing" /\ pc'[w] # pc[w]) =>
              /\ SameButRow(LedgerOnDisk(disk, mem[w].filename),
                            LedgerOnDisk(disk', mem[w].filename), design[w].job)
              /\ SameButRow(OutputOnDisk(disk, mem[w].filename),
                            OutputOnDisk(disk', mem[w].filename), design[w].job)]_vars

\* w is inside a parallel run
InParallelRun(w) == pc[w] \in {"par_claim", "par_pool", "par_write"}

\* the row indices that were OPEN when the run of w was called
OpenAtStart(w) == OpenIndices(start[w].data.jobs)

\* every job that was OPEN when the run was called is claimed
AllClaimed(w) ==
    /\ OpenIndices(mem[w].jobs) = {}
    /\ \A i \in OpenAtStart(w) : StatusOf(mem[w].jobs, i) = IN_PROGRESS

\* the step writes an output cell or a ledger entry back
WritesBack(w) ==
    \/ mem'[w].output_data # mem[w].output_data
    \/ \E k \in 1..Len(mem[w].jobs) :
           mem'[w].jobs[k].s # mem[w].jobs[k].s /\ mem'[w].jobs[k].s # IN_PROGRESS

\* C24: in a parallel run every task of the pool starts when all the OPEN
\* jobs have been claimed, and nothing is written back to the output
\* table or the ledger before every claimed job has been evaluated.
C24_ClaimAllThenWriteBack ==
    [][\A w \in workers :
          InParallelRun(w) =>
              /\ evald'[w] # evald[w] => AllClaimed(w)
              /\ WritesBack(w) =>
                    /\ pc[w] = "par_write"
                    /\ EvaluatedSet(w) = OpenAtStart(w)]_vars

C24_Witness ==
    \E w \in workers :
        /\ pc[w] = "par_write"
        /\ Cardinality(OpenAtStart(w)) = MaxJobs
        /\ \E i \in OpenAtStart(w) : StatusOf(mem[w].jobs, i) = FINISHED
        /\ \E i \in OpenAtStart(w) : StatusOf(mem[w].jobs, i) = IN_PROGRESS

\* the row indices present in all three tables of d
RowIndices(d) == IndexSet(d.input_data) \cap IndexSet(d.output_data) \cap IndexSet(d.jobs)

\* the design of row i of d carrying the output value
DesignWith(d, i, value) == [get_design(d, i) EXCEPT !.out = ValueCell(value)]

\* once, the outcome of set_design(dsg) on d, leaves the job FINISHED with
\* the output of the design and the other rows as in d
CompletedIn(d, dsg, once) ==
    /\ once.raised = "none"
    /\ StatusOf(once.data.jobs, dsg.job) = FINISHED
    /\ Data_get(once.data.output_data, dsg.job) = dsg.out
    /\ SameButRow(d.jobs, once.data.jobs, dsg.job)
    /\ SameButRow(d.output_data, once.data.output_data, dsg.job)
    /\ once.data.input_data = d.input_data

\* set_design(dsg) applied to the outcome once gives that outcome again
SameWhenRepeated(dsg, once) == set_design(once.data, dsg) = once

CompletedOnceOrTwice(d, dsg) ==
    /\ CompletedIn(d, dsg, set_design(d, dsg))
    /\ SameWhenRepeated(dsg, set_design(d, dsg))

\* C25: applying set_design with the same design twice leaves the ledger
\* and the output table as applying it once does: the job FINISHED, the
\* output values of the design, the other rows unchanged.
C25_SetDesignIdempotent ==
    \A w \in workers : \A i \in RowIndices(mem[w]) : \A value \in {0} \cup OutputVals :
        CompletedOnceOrTwice(mem[w], DesignWith(mem[w], i, value))

C25_Witness ==
    \E w \in workers : \E i \in RowIndices(mem[w]) :
        /\ pc[w] = "idle"
        /\ Len(mem[w].jobs) = MaxJobs - 1
        /\ Data_get(mem[w].input_data, i) = 0
        /\ Data_get(mem[w].output_data, i) = ValueCell(1)
        /\ mem[w] = set_design(mem[w], DesignWith(mem[w], i, 1)).data
        /\ \E j \in RowIndices(mem[w]) : StatusOf(mem[w].jobs, j) = IN_PROGRESS

\* the ledger statuses of d, row by row
Statuses(jobs) == [k \in 1..Len(jobs) |-> jobs[k].s]

\* C26: the column names of the input store are the parameter names of the
\* domain's input space after any calls of add_new_input_column, and a
\* call of add_new_input_column changes neither the number of rows of a
\* table nor a ledger status.
C26_ColumnsFollowDomain ==
    [][\A w \in workers :
          /\ mem[w].input_columns = mem[w].domain
          /\ mem'[w].input_columns = mem'[w].domain
          /\ \A name \in ColumnNames :
                 mem'[w] = add_new_input_column(mem[w], name) =>
                     /\ Len(mem'[w].input_data) = Len(mem[w].input_data)
                     /\ Len(mem'[w].output_data) = Len(mem[w].output_data)
                     /\ Statuses(mem'[w].jobs) = Statuses(mem[w].jobs)]_vars

C26_Witness ==
    \E w \in workers :
        /\ mem[w].input_columns = <<"x0", "x2", "x1">>
        /\ mem[w].domain = <<"x0", "x2", "x1">>
        /\ Len(mem[w].input_data) = MaxJobs - 1
        /\ \E k \in 1..Len(mem[w].jobs) : mem[w].jobs[k].s = IN_PROGRESS
        /\ disk[<<mem[w].filename, "_domain">>].content = <<"x0", "x2">>

\* table t holds, in the order given, the rows of table orig that have the
\* given indices, as they are in orig
ExactlyRows(t, orig, indices) ==
    /\ Len(t) = Len(indices)
    /\ \A k \in 1..Len(t) :
          /\ t[k].i = indices[k]
          /\ \E m \in 1..Len(orig) : orig[m] = t[k]

\* C27: select(indices), for indices of the dataset, returns a dataset
\* whose input store, output store and ledger hold exactly the rows of
\* those indices with their values and statuses, and the dataset it was
\* called on keeps its three tables.
C27_SelectExactlyRows ==
    \A w \in workers : \A indices \in DistinctIndexLists :
        ~SelectRaises(mem[w], indices) =>
            /\ SameTables(select_call(mem[w], indices).self, mem[w])
            /\ ExactlyRows(select_call(mem[w], indices).returned.input_data,
                           mem[w].input_data, indices)
            /\ ExactlyRows(select_call(mem[w], indices).returned.output_data,
                           mem[w].output_data, indices)
            /\ ExactlyRows(select_call(mem[w], indices).returned.jobs,
                           mem[w].jobs, indices)

C27_Witness ==
    \E w \in workers :
        /\ Indices(mem[w].jobs) = <<1, 0>>
        /\ Indices(mem[w].input_data) = <<1, 0>>
        /\ Indices(mem[w].output_data) = <<1, 0>>
        /\ mem[w].jobs[1].s = ERROR
        /\ mem[w].output_data[1].v = ErrorCell
        /\ mem[w].jobs[2].s = FINISHED
        /\ mem[w].input_data[2].v = 1
        /\ mem[w].output_data[2].v = ValueCell(1)

\* table t without its last n rows
DropLast(t, n) == SubSeq(t, 1, Len(t) - n)

\* C28: remove_rows_bottom(n) with 0 < n <= len takes the last n rows, and
\* no other row, out of the input store, the output store and the ledger,
\* and remove_rows_bottom(0) changes nothing.
C28_RemoveLastRows ==
    \A w \in workers : \A n \in 0..NumberOfDatapoints(mem[w]) :
        IF n = 0
          THEN remove_rows_bottom(mem[w], n) = mem[w]
          ELSE /\ remove_rows_bottom(mem[w], n).input_data = DropLast(mem[w].input_data, n)
               /\ remove_rows_bottom(mem[w], n).output_data = DropLast(mem[w].output_data, n)
               /\ remove_rows_bottom(mem[w], n).jobs = DropLast(mem[w].jobs, n)

\* the output file is missing and the other three files are there
OnlyOutputMissing(files, filename) ==
    /\ ~files[<<filename, "_output">>].exists
    /\ files[<<filename, "_domain">>].exists
    /\ files[<<filename, "_data">>].exists
    /\ files[<<filename, "_jobs">>].exists

\* the output table has one row per row of the input table, with the same
\* index, and every cell unset
UnsetRowPerInputRow(d) ==
    /\ Len(d.output_data) = Len(d.input_data)
    /\ \A k \in 1..Len(d.input_data) :
          /\ d.output_data[k].i = d.input_data[k].i
          /\ d.output_data[k].v = UnsetCell

SomeFileMissing(files, filename, suffixes) ==
    \E x \in suffixes : ~files[<<filename, x>>].exists

\* C29: from_file on files whose output file alone is missing creates the
\* dataset of the other files with one unset output row per input row
\* index; when the domain, the input or the ledger file is missing it
\* raises FileNotFoundError and creates no dataset.
C29_LoadWithMissingFiles ==
    \A filename \in Filenames :
        /\ OnlyOutputMissing(disk, filename) =>
              /\ from_file(disk, filename).raised = "none"
              /\ from_file(disk, filename).created
              /\ from_file(disk, filename).data.input_data =
                     disk[<<filename, "_data">>].content.rows
              /\ from_file(disk, filename).data.jobs = disk[<<filename, "_jobs">>].content
              /\ UnsetRowPerInputRow(from_file(disk, filename).data)
        /\ SomeFileMissing(disk, filename, {"_domain", "_data", "_jobs"}) =>
              /\ from_file(disk, filename).raised = "FileNotFoundError"
              /\ ~from_file(disk, filename).created

C29_Witness ==
    \E w \in workers :
        /\ OnlyOutputMissing(disk, mem[w].filename)
        /\ mem[w] = from_file(disk, mem[w].filename).data
        /\ Len(mem[w].jobs) = MaxJobs - 1
        /\ UnsetRowPerInputRow(mem[w])
        /\ \E k \in 1..Len(mem[w].jobs) : mem[w].jobs[k].s = FINISHED

\* the run of w was called with an operation that is not callable
NotCallableRun(w) == pc[w] # "idle" /\ operation[w] = "not callable"

\* C30: run called with an operation that is not callable ends with
\* TypeError, whatever the mode, without claiming or evaluating a job and
\* with the ledger, both stores and the files as they were.
C30_NotCallableRejected ==
    \A w \in workers :
        NotCallableRun(w) =>
            /\ pc[w] = "done"
            /\ raised[w] = "TypeError"
            /\ evald[w] = <<>>
            /\ mem[w] = start[w].data
            /\ disk = start[w].files

C30_Witness ==
    \E w \in workers :
        /\ NotCallableRun(w)
        /\ raised[w] = "TypeError"
        /\ mode[w] = "cluster"
        /\ Len(mem[w].jobs) = MaxJobs
        /\ \A k \in 1..Len(mem[w].jobs) : mem[w].jobs[k].s = OPEN
        /\ FromFileNotFound(disk, mem[w].filename)

\* the row indices whose ledger status is IN_PROGRESS
InProgressIndices(jobs) ==
    {jobs[k].i : k \in {n \in 1..Len(jobs) : jobs[n].s = IN_PROGRESS}}

\* w is inside a sequential run with an operation, or at its end
InSequentialRun(w) ==
    /\ pc[w] \in {"seq_claim", "seq_eval", "done"}
    /\ Lower(mode[w]) = "sequential"
    /\ operation[w] \in Operations

\* C31: during a sequential run that started from a ledger without
\* IN_PROGRESS rows, the only row that is IN_PROGRESS is the row whose
\* operation is being evaluated; between evaluations no row is.
C31_OneInProgressSequential ==
    \A w \in workers :
        (InSequentialRun(w) /\ NoneInProgress(start[w].data.jobs)) =>
            InProgressIndices(mem[w].jobs) =
                IF pc[w] = "seq_eval" THEN {design[w].job} ELSE {}

C31_Witness ==
    \E w \in workers :
        /\ pc[w] = "seq_eval"
        /\ Lower(mode[w]) = "sequential"
        /\ NoneInProgress(start[w].data.jobs)
        /\ Len(mem[w].jobs) = MaxJobs
        /\ evald[w] # <<>>
        /\ design[w].job = MaxJobs - 2
        /\ StatusOf(mem[w].jobs, MaxJobs - 1) = OPEN
        /\ InProgressIndices(mem[w].jobs) = {MaxJobs - 2}

\* w has claimed a job and not yet written it back
HoldsClaim(w) == pc[w] \in {"clu_eval", "clu_write", "clu_writing"}

\* the jobs claimed and not yet written back
HeldJobs == {design[w].job : w \in {v \in workers : HoldsClaim(v)}}

PersistedInProgress == InProgressIndices(LedgerOnDisk(disk, DefaultFilename))

\* C32: in cluster mode without crashes, starting without IN_PROGRESS
\* rows, every IN_PROGRESS row of the persisted ledger is the one job a
\* worker has claimed and not yet written back, so there are never more
\* IN_PROGRESS rows than workers.
C32_InProgressBoundedByWorkers ==
    /\ PersistedInProgress \subseteq HeldJobs
    /\ Cardinality(PersistedInProgress) <= Cardinality({w \in workers : HoldsClaim(w)})
    /\ Cardinality(PersistedInProgress) <= Cardinality(workers)

C32_Witness ==
    /\ Cardinality(PersistedInProgress) = 1
    /\ Len(LedgerOnDisk(disk, DefaultFilename)) = 2
    /\ Cardinality({w \in workers : HoldsClaim(w)}) = 1
    /\ \E w \in workers : pc[w] = "done" /\ RaisingEvals(w) # {}
    /\ \E k \in 1..2 : LedgerOnDisk(disk, DefaultFilename)[k].s \in Terminal

\* w is inside a cluster run with an operation, or at its end
InClusterRun(w) ==
    /\ pc[w] # "idle"
    /\ Lower(mode[w]) = "cluster"
    /\ operation[w] \in Operations

\* C33: a cluster run leaves the dataset of its caller as it was when run
\* was called, at every moment of the run and after it: claims, results
\* and error marks go to the datasets reloaded from the files.
C33_CallerDatasetUntouched ==
    \A w \in workers : InClusterRun(w) => mem[w] = start[w].data

C33_Witness ==
    \E w \in workers :
        /\ InClusterRun(w)
        /\ pc[w] = "done"
        /\ raised[w] = "none"
        /\ Len(evald[w]) = 2
        /\ RaisingEvals(w) # {}
        /\ AllOpenAtStart(w)
        /\ AllTerminal(LedgerOnDisk(disk, mem[w].filename))

\* C34: when the operation raised for a task of a parallel run, the run
\* ends with that exception, the output table is as it was when run was
\* called, and every job that was OPEN then is IN_PROGRESS, so that no
\* OPEN job is left for a later run.
C34_ParallelFailureLeavesInProgress ==
    \A w \in workers :
        (ParallelRunEnded(w) /\ RaisingEvals(w) # {}) =>
            /\ raised[w] = "Exception"
            /\ mem[w].output_data = start[w].data.output_data
            /\ \A i \in OpenAtStart(w) : StatusOf(mem[w].jobs, i) = IN_PROGRESS
            /\ ~HasOpenJob(mem[w].jobs)
            /\ access_open_job_data(mem[w]).raised = "NoOpenJobsError"

C34_Witness ==
    \E w \in workers :
        /\ ParallelRunEnded(w)
        /\ Cardinality(RaisingEvals(w)) = 1
        /\ Len(evald[w]) = MaxJobs
        /\ AllOpenAtStart(w)
        /\ raised[w] = "Exception"

(***************************************************************************)
(* Specification SpecParameter: one call that builds a Parameter, by the   *)
(* constructor of a class, by Parameter.from_dict or by                    *)
(* Parameter.from_json, on keyword arguments and class names drawn from    *)
(* small sets.                                                             *)
(***************************************************************************)
ParameterNames == {"x0", "x1"}
BoundValues ==
    {Py("float", "num", 0), Py("float", "num", 1), Py("float", "nan", 0),
     Py("float", "-inf", 0), Py("float", "inf", 0),
     Py("int", "num", 0), Py("int", "num", 1), Py("bool", "num", 1), Py("str", "str", 0)}

ParameterDicts ==
    {[name |-> n] : n \in ParameterNames}
      \cup {[name |-> n, lower_bound |-> lo, upper_bound |-> hi] :
              n \in ParameterNames, lo \in BoundValues, hi \in BoundValues}
      \cup {[name |-> n, value |-> v] :
              n \in ParameterNames, v \in {Py("int", "num", 1), Py("list", "list", 0)}}
      \cup {[name |-> n, categories |-> c] :
              n \in ParameterNames,
              c \in {<<Py("str", "str", 0)>>, <<Py("str", "str", 0), Py("str", "str", 0)>>,
                     <<Py("str", "str", 0), Py("int", "num", 1)>>}}

ParameterClasses == {"Parameter"} \cup SetOf(PARAMETERS)
ClassNames == ParameterClasses \cup {"IntegerParameter"}

\* cls(**kwargs)
ParameterInit(cls, kwargs) ==
    /\ parameter = NoCall
    /\ parameter' = [op |-> "init", cls |-> cls, name |-> cls, kwargs |-> kwargs,
                     result |-> Construct(cls, kwargs)]
    /\ UNCHANGED <<designspace, workers, mem, disk, lock, start, retry, RunVars>>

\* cls.from_dict(parameter_dict, name)
ParameterFromDict(cls, parameter_dict, name) ==
    /\ parameter = NoCall
    /\ parameter' = [op |-> "from_dict", cls |-> cls, name |-> name, kwargs |-> parameter_dict,
                     result |-> from_dict(cls, parameter_dict, name)]
    /\ UNCHANGED <<designspace, workers, mem, disk, lock, start, retry, RunVars>>

\* cls.from_json(json_string)
ParameterFromJson(cls, json_string) ==
    /\ parameter = NoCall
    /\ parameter' = [op |-> "from_json", cls |-> cls, name |-> json_string[2],
                     kwargs |-> json_string[1], result |-> from_json(cls, json_string)]
    /\ UNCHANGED <<designspace, workers, mem, disk, lock, start, retry, RunVars>>

NextParameter ==
    \/ \E cls \in ParameterClasses, kwargs \in ParameterDicts : ParameterInit(cls, kwargs)
    \/ \E cls \in ParameterClasses, kwargs \in ParameterDicts, name \in ClassNames :
           ParameterFromDict(cls, kwargs, name)
    \/ \E cls \in ParameterClasses, kwargs \in ParameterDicts, name \in ClassNames :
           ParameterFromJson(cls, <<kwargs, name>>)

SpecParameter == Init /\ [][NextParameter]_vars

(***************************************************************************)
(* Specification SpecDesignSpace: a DesignSpace is constructed from two    *)
(* lists of at most MaxSpace parameters, and parameters are then added to  *)
(* its input and output space while a list holds at most MaxSpace.         *)
(***************************************************************************)
MaxSpace == 2

SpaceParameters ==
    {Construct("Parameter", [name |-> n]).obj : n \in ParameterNames}
      \cup {Construct("ContinuousParameter", [name |-> n]).obj : n \in ParameterNames}

Constructed == designspace.raised = "none" /\ "input_space" \in DOMAIN designspace.obj

\* DesignSpace(input_space=..., output_space=...)
DesignSpaceInit(input_space, output_space) ==
    /\ designspace = Raises("none")
    /\ designspace' = DesignSpace(input_space, output_space)
    /\ UNCHANGED <<parameter, workers, mem, disk, lock, start, retry, RunVars>>

\* designspace.add_input_space(space)
AddInputSpace(space) ==
    /\ Constructed
    /\ Len(designspace.obj.input_space) < MaxSpace
    /\ designspace' = Returns(add_input_space(designspace.obj, space))
    /\ UNCHANGED <<parameter, workers, mem, disk, lock, start, retry, RunVars>>

\* designspace.add_output_space(space)
AddOutputSpace(space) ==
    /\ Constructed
    /\ Len(designspace.obj.output_space) < MaxSpace
    /\ designspace' = Returns(add_output_space(designspace.obj, space))
    /\ UNCHANGED <<parameter, workers, mem, disk, lock, start, retry, RunVars>>

NextDesignSpace ==
    \/ \E input_space, output_space \in SeqsOf(SpaceParameters, 0, MaxSpace) :
           DesignSpaceInit(input_space, output_space)
    \/ \E space \in SpaceParameters : AddInputSpace(space)
    \/ \E space \in SpaceParameters : AddOutputSpace(space)

SpecDesignSpace == Init /\ [][NextDesignSpace]_vars

(***************************************************************************)
(* C35: Parameter.from_dict (and from_json) called with a class name that  *)
(* is not one of the known parameter classes fails by raising              *)
(* F3DASMParameterNotFoundError; with a known name, what it returns is an  *)
(* instance of exactly that class.                                         *)
(***************************************************************************)
ByClassName == parameter.op \in {"from_dict", "from_json"}
UnknownName == parameter.name \notin ParameterClasses
NotFoundRaised == parameter.result.raised = "F3DASMParameterNotFoundError"
ReturnedInstanceOf(class) ==
    parameter.result.raised = "none" => parameter.result.obj.class = class

C35_UnknownClassNameRaisesNotFound ==
    ByClassName =>
        /\ UnknownName => NotFoundRaised
        /\ parameter.name \in SetOf(PARAMETERS) => ReturnedInstanceOf(parameter.name)

(***************************************************************************)
(* C36: constructing a ContinuousParameter or DiscreteParameter with       *)
(* upper_bound < lower_bound or upper_bound == lower_bound fails with      *)
(* ValueError, with bounds of the wrong type (non-float resp. non-int)     *)
(* with TypeError, and every bounded parameter that was constructed has    *)
(* lower_bound < upper_bound.                                              *)
(***************************************************************************)
BoundedInit ==
    /\ parameter.op = "init"
    /\ parameter.cls \in {"ContinuousParameter", "DiscreteParameter"}
    /\ {"lower_bound", "upper_bound"} \subseteq DOMAIN parameter.kwargs

RightType(x) ==
    IF parameter.cls = "ContinuousParameter" THEN x.type = "float" ELSE x.type \in {"int", "bool"}

BoundsOfRightType ==
    RightType(parameter.kwargs.lower_bound) /\ RightType(parameter.kwargs.upper_bound)

BadRange ==
    \/ py_lt(parameter.kwargs.upper_bound, parameter.kwargs.lower_bound)
    \/ py_eq(parameter.kwargs.upper_bound, parameter.kwargs.lower_bound)

ConstructedBounded ==
    /\ parameter.result.raised = "none"
    /\ parameter.result.obj.class \in {"ContinuousParameter", "DiscreteParameter"}

C36_BoundsValidated ==
    /\ BoundedInit /\ ~BoundsOfRightType => parameter.result.raised = "TypeError"
    /\ BoundedInit /\ BoundsOfRightType /\ BadRange => parameter.result.raised = "ValueError"
    /\ ConstructedBounded =>
           py_lt(parameter.result.obj.lower_bound, parameter.result.obj.upper_bound)

(***************************************************************************)
(* C37: the input parameter names of a DesignSpace are pairwise distinct   *)
(* in every reachable state, after construction and after any sequence of  *)
(* add_input_space and add_output_space calls.                             *)
(***************************************************************************)
PairwiseDistinct(names) == \A i, j \in 1..Len(names) : names[i] = names[j] => i = j

C37_InputNamesDistinct ==
    Constructed => PairwiseDistinct(get_input_names(designspace.obj))

====
